---- MODULE Spec2Model ----
(***************************************************************************)
(* A model of the batch stages of local_party_accounts:                    *)
(*   4_add_mps.py      the name normaliser, the canonical key, the MP       *)
(*                     lookup and the analysis-row matching loop            *)
(*   0_dedupe_data.py  the filter / sort / drop_duplicates of filings       *)
(* Text is modelled as TLA+ strings; a character is a string of length 1.   *)
(***************************************************************************)
EXTENDS Integers, Sequences, FiniteSets, TLC

\* ------------------------------------------------------------------------
\* Characters and strings (Python str, restricted to the ASCII the data uses)
\* ------------------------------------------------------------------------

\* The characters of the model in code-point order: Python compares and sorts
\* strings by code point.
AsciiOrder == " &-./0123456789ABCDEFGHIJKLMNOPQRSTUVWXYZ_abcdefghijklmnopqrstuvwxyz"

UpperChars == "ABCDEFGHIJKLMNOPQRSTUVWXYZ"

LowerChars == "abcdefghijklmnopqrstuvwxyz"

DigitChars == "0123456789"

Ch(s, i) == SubSeq(s, i, i)

\* The set of the characters of s
CharsOf(s) == {Ch(s, i) : i \in 1..Len(s)}

\* str.find + 1: the first position of character c in s, 0 when absent
Pos(c, s) ==
  IF \E i \in 1..Len(s) : Ch(s, i) = c
  THEN CHOOSE i \in 1..Len(s) : Ch(s, i) = c /\ \A j \in 1..(i - 1) : Ch(s, j) # c
  ELSE 0

\* ord, as a table over the model's characters
CodeTable == [c \in CharsOf(AsciiOrder) |-> Pos(c, AsciiOrder)]

\* ord(c)
Code(c) == CodeTable[c]

\* The characters \w matches
WordChars == CharsOf(UpperChars) \cup CharsOf(LowerChars) \cup CharsOf(DigitChars) \cup {"_"}

\* \w of the re module on str patterns: letters, digits and the underscore
IsWordChar(c) == c \in WordChars

\* \s of the re module, str.isspace of split() and strip()
IsSpaceChar(c) == c = " "

\* str.lower(), as a table over the upper-case letters
LowerTable == [c \in CharsOf(UpperChars) |-> Ch(LowerChars, Pos(c, UpperChars))]

\* str.lower() of one character
LowerChar(c) == IF c \in DOMAIN LowerTable THEN LowerTable[c] ELSE c

RECURSIVE StrLower(_)
\* str.lower()
StrLower(s) == IF s = "" THEN "" ELSE LowerChar(Head(s)) \o StrLower(Tail(s))

\* s.startswith(p) at position i (1-based)
MatchAt(s, i, p) == i + Len(p) - 1 <= Len(s) /\ SubSeq(s, i, i + Len(p) - 1) = p

RECURSIVE StrReplace(_, _, _)
\* str.replace(old, new): leftmost, non-overlapping, all occurrences (old # "")
StrReplace(s, old, new) ==
  IF Len(s) < Len(old) THEN s
  ELSE IF MatchAt(s, 1, old)
       THEN new \o StrReplace(SubSeq(s, Len(old) + 1, Len(s)), old, new)
       ELSE Head(s) \o StrReplace(Tail(s), old, new)

\* Lexicographic comparison of two strings by code point (Python's str <)
RECURSIVE StrLess(_, _)
StrLess(a, b) ==
  IF b = "" THEN FALSE
  ELSE IF a = "" THEN TRUE
  ELSE IF Head(a) = Head(b) THEN StrLess(Tail(a), Tail(b))
  ELSE Code(Head(a)) < Code(Head(b))

RECURSIVE SplitFrom(_, _, _)
\* str.split(): the maximal runs of non-whitespace characters, in order.
\* cur is the run being collected, i the next position to read.
SplitFrom(s, i, cur) ==
  IF i > Len(s) THEN (IF cur = "" THEN <<>> ELSE <<cur>>)
  ELSE IF IsSpaceChar(Ch(s, i))
       THEN (IF cur = "" THEN <<>> ELSE <<cur>>) \o SplitFrom(s, i + 1, "")
       ELSE SplitFrom(s, i + 1, cur \o Ch(s, i))

StrSplit(s) == SplitFrom(s, 1, "")

RECURSIVE StrJoin(_, _)
\* sep.join(words)
StrJoin(words, sep) ==
  IF words = <<>> THEN ""
  ELSE IF Len(words) = 1 THEN words[1]
  ELSE words[1] \o sep \o StrJoin(Tail(words), sep)

\* list.sort() left out: the words stay in their order
SortWordsSkipped(words) == words

RECURSIVE InsertSorted(_, _)
InsertSorted(w, sorted) ==
  IF sorted = <<>> THEN <<w>>
  ELSE IF StrLess(w, Head(sorted)) THEN <<w>> \o sorted
  ELSE <<Head(sorted)>> \o InsertSorted(w, Tail(sorted))

RECURSIVE SortWords(_)
\* list.sort() of a list of str: ascending by code point
SortWords(words) ==
  IF words = <<>> THEN <<>>
  ELSE InsertSorted(words[Len(words)], SortWords(SubSeq(words, 1, Len(words) - 1)))

\* A Python value that is either a str or None (csv.DictReader's restval)
PyStr(s) == [isstr |-> TRUE, s |-> s]

PyNone == [isstr |-> FALSE, s |-> ""]

\* ------------------------------------------------------------------------
\* 4_add_mps.py: normalise_constituency_name and create_canonical_key
\* ------------------------------------------------------------------------

\* \b at offset k of s (between character k and character k+1, 0 <= k <= Len(s))
WordBoundary(s, k) ==
  LET before == k >= 1 /\ IsWordChar(Ch(s, k))
      after  == k + 1 <= Len(s) /\ IsWordChar(Ch(s, k + 1))
  IN  before # after

\* Length of the match of \b(and|&)\b (re.IGNORECASE) starting at position i,
\* 0 when there is none
ConjMatchLen(s, i) ==
  IF ~WordBoundary(s, i - 1) THEN 0
  ELSE IF i + 2 <= Len(s) /\ StrLower(SubSeq(s, i, i + 2)) = "and"
          /\ WordBoundary(s, i + 2) THEN 3
  ELSE IF Ch(s, i) = "&" /\ WordBoundary(s, i) THEN 1
  ELSE 0

\* Length of the match of \bst\.?\b starting at position i, 0 when there is
\* none: the optional dot is greedy and is given back when \b fails after it
SaintMatchLen(s, i) ==
  IF ~(WordBoundary(s, i - 1) /\ MatchAt(s, i, "st")) THEN 0
  ELSE IF MatchAt(s, i + 2, ".") /\ WordBoundary(s, i + 2) THEN 3
  ELSE IF WordBoundary(s, i + 1) THEN 2
  ELSE 0

\* the conjunction step left out
SubConjSkipped(s, i) == SubSeq(s, i, Len(s))

\* the abbreviation step left out
SubSaintSkipped(s, i) == SubSeq(s, i, Len(s))

RECURSIVE SubConj(_, _)
\* re.sub(r'\b(and|&)\b', '', s) from position i on
SubConj(s, i) ==
  IF i > Len(s) THEN ""
  ELSE IF ConjMatchLen(s, i) > 0 THEN SubConj(s, i + ConjMatchLen(s, i))
  ELSE Ch(s, i) \o SubConj(s, i + 1)

RECURSIVE SubSaint(_, _)
\* re.sub(r'\bst\.?\b', 'saint', s) from position i on
SubSaint(s, i) ==
  IF i > Len(s) THEN ""
  ELSE IF SaintMatchLen(s, i) > 0 THEN "saint" \o SubSaint(s, i + SaintMatchLen(s, i))
  ELSE Ch(s, i) \o SubSaint(s, i + 1)

RECURSIVE StripPunct(_)
\* re.sub(r'[^\w\s]', '', s)
StripPunct(s) ==
  IF s = "" THEN ""
  ELSE (IF IsWordChar(Head(s)) \/ IsSpaceChar(Head(s)) THEN Head(s) ELSE "")
       \o StripPunct(Tail(s))

\* normalise_constituency_name(text), text a str or None
normalise_constituency_name(text) ==
  IF ~text.isstr THEN ""
  ELSE LET t1 == StrReplace(text.s, "CLP", "")
           t2 == StrLower(t1)
           t3 == SubConj(t2, 1)
           t4 == SubSaint(t3, 1)
           t5 == StripPunct(t4)
       IN  StrJoin(StrSplit(t5), " ")

\* create_canonical_key(text), text a str or None
create_canonical_key(text) ==
  LET normalized == normalise_constituency_name(text)
  IN  IF normalized = "" THEN ""
      ELSE StrJoin(SortWords(StrSplit(normalized)), " ")

\* ------------------------------------------------------------------------
\* State
\* ------------------------------------------------------------------------

VARIABLES
  \* create_canonical_key applied to a name, to a variant of it, and to its own result
  kName, kPc, kKey, kVariant, kVarKey, kReKey,
  \* 4_add_mps.py: the roster read so far and the lookup built from it
  mPc, mErr, mpHeader, mpRows, mp_data_lookup, count, duplicates, skipped_no_constituency,
  \* 4_add_mps.py: the analysis rows read so far and the output file
  anHeader, anRows, outOpen, outRows, processed_rows, matched_rows,
  \* 0_dedupe_data.py: the input table, the DataFrame and the output file
  dPc, dIn, df, dWritten, dOut,
  \* 7_generate_charts.py: the two input files and get_base_unit_counts
  cPc, cBase, cAnalysis, initial_rows, skipped_or_duplicates, processed_units,
  unique_units_per_party, total_units_base,
  \* 7_generate_charts.py: analyze_tax_categories and the adjustment of step 3
  rows_read, processed_units_in_analysis, analysis_counts, units_analyzed_count,
  units_skipped_count, category_num, cWarnings, adjusted_parties, parties_with_issues,
  \* 7_generate_charts.py: reader.fieldnames of the two input files
  base_fieldnames, analysis_fieldnames,
  \* 6_generate_html.py: the rows read, the loop over them and the table built
  hPc, data_rows, hRow, hOutcome, checked, missing_tax, missing_ipsa_tax_single_year,
  missing_ipsa_tax_all_years, rows_added, html_rows,
  \* the stages run one after the other: the files on disk and what each stage read
  pPc, files, stage_read

keyVars == <<kName, kPc, kKey, kVariant, kVarKey, kReKey>>

rosterVars == <<mpHeader, mpRows, mp_data_lookup, count, duplicates, skipped_no_constituency>>

analysisVars == <<anHeader, anRows, outOpen, outRows, processed_rows, matched_rows>>

matcherVars == <<mPc, mErr, rosterVars, analysisVars>>

dedupeVars == <<dPc, dIn, df, dWritten, dOut>>

baseVars ==
  <<cBase, initial_rows, skipped_or_duplicates, processed_units, unique_units_per_party,
    total_units_base>>

categoryVars ==
  <<cAnalysis, rows_read, processed_units_in_analysis, analysis_counts,
    units_analyzed_count, units_skipped_count, category_num>>

adjustVars == <<cWarnings, adjusted_parties, parties_with_issues>>

headerVars == <<base_fieldnames, analysis_fieldnames>>

chartVars == <<cPc, baseVars, categoryVars, adjustVars, headerVars>>

totalVars == <<missing_tax, missing_ipsa_tax_single_year, missing_ipsa_tax_all_years>>

htmlVars == <<hPc, data_rows, hRow, hOutcome, checked, totalVars, rows_added, html_rows>>

pipeVars == <<pPc, files, stage_read>>

vars == <<keyVars, matcherVars, dedupeVars, chartVars, htmlVars, pipeVars>>

\* ------------------------------------------------------------------------
\* Inputs of create_canonical_key
\* ------------------------------------------------------------------------

\* Most words of a generated name
MaxWords == 3

\* Words the generated names are made of: plain words, the conjunctions, the
\* abbreviation of saint in several cases, the CLP suffix, a word with
\* punctuation inside, and the empty word (which doubles a separator)
Vocabulary == {"East", "and", "&", "St", "St.", "sT.", "Saint", "CLP", "s.t", ""}

\* Names of the specification's examples, and names with punctuation or CLP
\* inside a word
ExampleNames ==
  {"East Ham", "Ham East", "St. Ives", "Saint Ives",
   "Newcastle upon Tyne and Wallsend", "Newcastle upon Tyne Wallsend",
   "Cities of London and Westminster", "Cities of London & Westminster",
   "X and Y", "X AND Y", "X & Y", "X Y", "X&Y",
   "st.and", "a&nd East", "a&st", "C&LP", "aCLPnd", "East Ham CLP"}

WordLists == UNION {[1..n -> Vocabulary] : n \in 0..MaxWords}

Names == {StrJoin(ws, " ") : ws \in WordLists} \cup ExampleNames

\* The whitespace-separated words of s as spans <<first, last>>
TokenSpans(s) ==
  {sp \in (1..Len(s)) \X (1..Len(s)) :
     /\ sp[1] <= sp[2]
     /\ \A i \in sp[1]..sp[2] : ~IsSpaceChar(Ch(s, i))
     /\ (sp[1] = 1 \/ IsSpaceChar(Ch(s, sp[1] - 1)))
     /\ (sp[2] = Len(s) \/ IsSpaceChar(Ch(s, sp[2] + 1)))}

ReplaceSpan(s, sp, r) == SubSeq(s, 1, sp[1] - 1) \o r \o SubSeq(s, sp[2] + 1, Len(s))

\* The word orders of s: its words in every permutation, joined by one space
Permuted(s) ==
  LET ws == StrSplit(s)
      n  == Len(ws)
  IN  {StrJoin([i \in 1..n |-> ws[p[i]]], " ") : p \in Permutations(1..n)}

\* s with one whole word "St" or "St." (any case) replaced by "Saint"
SaintExpanded(s) ==
  {ReplaceSpan(s, sp, "Saint") :
     sp \in {t \in TokenSpans(s) : StrLower(SubSeq(s, t[1], t[2])) \in {"st", "st."}}}

\* s with one whole word "and" (any case) or "&" deleted
ConjDropped(s) ==
  {ReplaceSpan(s, sp, "") :
     sp \in {t \in TokenSpans(s) : StrLower(SubSeq(s, t[1], t[2])) \in {"and", "&"}}}

Variants(s) ==
  {[rel |-> "perm", text |-> t] : t \in Permuted(s)}
  \cup {[rel |-> "saint", text |-> t] : t \in SaintExpanded(s)}
  \cup {[rel |-> "conj", text |-> t] : t \in ConjDropped(s)}

NoVariant == [rel |-> "none", text |-> ""]

\* ------------------------------------------------------------------------
\* Applications of create_canonical_key
\* ------------------------------------------------------------------------

\* {}
EmptyDict == [k \in {} |-> ""]

\* The state of the matcher stage before it runs
MatcherIdle ==
  /\ mPc = "start"
  /\ mErr = ""
  /\ mpHeader = <<>>
  /\ mpRows = <<>>
  /\ mp_data_lookup = EmptyDict
  /\ count = 0
  /\ duplicates = 0
  /\ skipped_no_constituency = 0
  /\ anHeader = <<>>
  /\ anRows = <<>>
  /\ outOpen = FALSE
  /\ outRows = <<>>
  /\ processed_rows = 0
  /\ matched_rows = 0

\* The state of create_canonical_key's harness when another stage is checked
KeyIdle ==
  /\ kName = ""
  /\ kPc = "idle"
  /\ kKey = ""
  /\ kVariant = [rel |-> "none", text |-> ""]
  /\ kVarKey = ""
  /\ kReKey = ""

\* The state of the de-duplication stage before it runs
DedupeIdle ==
  /\ dPc = "idle"
  /\ dIn = <<>>
  /\ df = <<>>
  /\ dWritten = FALSE
  /\ dOut = <<>>

\* The state of the chart stage before it runs; category_num 0 stands for
\* None
ChartIdle ==
  /\ cPc = "idle"
  /\ cBase = <<>>
  /\ cAnalysis = <<>>
  /\ initial_rows = 0
  /\ skipped_or_duplicates = 0
  /\ processed_units = {}
  /\ unique_units_per_party = EmptyDict
  /\ total_units_base = 0
  /\ rows_read = 0
  /\ processed_units_in_analysis = {}
  /\ analysis_counts = [overall |-> EmptyDict, per_party |-> EmptyDict]
  /\ units_analyzed_count = 0
  /\ units_skipped_count = 0
  /\ category_num = 0
  /\ cWarnings = {}
  /\ adjusted_parties = 0
  /\ parties_with_issues = 0
  /\ base_fieldnames = <<>>
  /\ analysis_fieldnames = <<>>

\* The state of the HTML stage before it runs
HtmlIdle ==
  /\ hPc = "idle"
  /\ data_rows = <<>>
  /\ hRow = 0
  /\ hOutcome = ""
  /\ checked = {}
  /\ missing_tax = [kind |-> "num", m |-> 0, e |-> 0]
  /\ missing_ipsa_tax_single_year = [kind |-> "num", m |-> 0, e |-> 0]
  /\ missing_ipsa_tax_all_years = [kind |-> "num", m |-> 0, e |-> 0]
  /\ rows_added = 0
  /\ html_rows = <<>>

\* No stage has run and no file is looked at
PipeIdle ==
  /\ pPc = "idle"
  /\ files = EmptyDict
  /\ stage_read = EmptyDict

\* What the applications of create_canonical_key leave alone
KeyFrame == UNCHANGED <<matcherVars, dedupeVars, chartVars, htmlVars, pipeVars>>

\* What the matcher stage leaves alone
MatcherFrame == UNCHANGED <<keyVars, dedupeVars, chartVars, htmlVars, pipeVars>>

\* What the de-duplication stage leaves alone
DedupeFrame == UNCHANGED <<keyVars, matcherVars, chartVars, htmlVars, pipeVars>>

\* What the chart stage leaves alone
ChartFrame == UNCHANGED <<keyVars, matcherVars, dedupeVars, htmlVars, pipeVars>>

\* What the HTML stage leaves alone
HtmlFrame == UNCHANGED <<keyVars, matcherVars, dedupeVars, chartVars, pipeVars>>

\* What a run of the stages in order leaves alone
PipeFrame == UNCHANGED <<keyVars, matcherVars, dedupeVars, chartVars, htmlVars>>

KeyInit ==
  /\ MatcherIdle
  /\ DedupeIdle
  /\ ChartIdle
  /\ HtmlIdle
  /\ PipeIdle
  /\ kName \in Names
  /\ kPc = "start"
  /\ kKey = ""
  /\ kVariant = NoVariant
  /\ kVarKey = ""
  /\ kReKey = ""

\* key = create_canonical_key(name)
KeyOfName ==
  /\ kPc = "start"
  /\ kKey' = create_canonical_key(PyStr(kName))
  /\ kPc' = "keyed"
  /\ KeyFrame
  /\ UNCHANGED <<kName, kVariant, kVarKey, kReKey>>

\* create_canonical_key applied to a name related to the first one
KeyOfVariant ==
  /\ kPc = "keyed"
  /\ \E v \in Variants(kName) :
       /\ kVariant' = v
       /\ kVarKey' = create_canonical_key(PyStr(v.text))
  /\ kPc' = "variant"
  /\ KeyFrame
  /\ UNCHANGED <<kName, kKey, kReKey>>

\* create_canonical_key applied to its own result
KeyOfKey ==
  /\ kPc = "keyed"
  /\ kReKey' = create_canonical_key(PyStr(kKey))
  /\ kPc' = "rekeyed"
  /\ KeyFrame
  /\ UNCHANGED <<kName, kKey, kVariant, kVarKey>>

KeyNext == KeyOfName \/ KeyOfVariant \/ KeyOfKey

SpecKey == KeyInit /\ [][KeyNext]_vars

\* ------------------------------------------------------------------------
\* Claims about create_canonical_key
\* ------------------------------------------------------------------------

\* C1: create_canonical_key is order-independent: the key of a name whose
\* whitespace-separated words are permuted equals the key of the name.
C1_OrderIndependent ==
  (kPc = "variant" /\ kVariant.rel = "perm") => kVarKey = kKey

C1_Witness ==
  /\ kPc = "variant"
  /\ kName = "East Ham"
  /\ kVariant = [rel |-> "perm", text |-> "Ham East"]
  /\ kKey = "east ham"
  /\ kVarKey = "east ham"

\* C2: create_canonical_key is idempotent: applied to its own result it
\* returns that result.
C2_Idempotent ==
  kPc = "rekeyed" => kReKey = kKey

\* C7: replacing a whole word "St" or "St." (any case) by "Saint" does not
\* change the canonical key. A whole word is a whitespace-separated word of
\* the name, as in "St. Ives".
C7_SaintAbbreviation ==
  (kPc = "variant" /\ kVariant.rel = "saint") => kVarKey = kKey

C7_Witness ==
  /\ kPc = "variant"
  /\ kName = "St. Ives"
  /\ kVariant = [rel |-> "saint", text |-> "Saint Ives"]
  /\ kKey = "ives saint"
  /\ kVarKey = "ives saint"

\* C8: deleting a whole word "and" (any case) or "&" does not change the
\* canonical key; "X and Y", "X & Y" and "X Y" have one key, and so have
\* "Newcastle upon Tyne and Wallsend" and "Newcastle upon Tyne Wallsend".
\* A whole word is a whitespace-separated word of the name.
C8_ConjunctionRemoved ==
  /\ (kPc = "variant" /\ kVariant.rel = "conj") => kVarKey = kKey
  /\ (kPc = "keyed" /\ kName \in {"X and Y", "X & Y", "X Y"}) => kKey = "x y"
  /\ (kPc = "keyed" /\ kName \in {"Newcastle upon Tyne and Wallsend",
                                  "Newcastle upon Tyne Wallsend"})
       => kKey = "newcastle tyne upon wallsend"

C8_Witness ==
  /\ kPc = "variant"
  /\ kName = "Newcastle upon Tyne and Wallsend"
  /\ kVariant = [rel |-> "conj", text |-> "Newcastle upon Tyne  Wallsend"]
  /\ kVarKey = "newcastle tyne upon wallsend"
  /\ kKey = kVarKey

\* ------------------------------------------------------------------------
\* 4_add_mps.py: inputs. A table row is the list of its cells, as csv reads it
\* ------------------------------------------------------------------------

\* Most roster rows and most analysis rows of a run
MaxRoster == 2

MaxAnalysis == 2

mp_headers == <<"Constituency", "Name (Display as)", "Email", "Party">>

\* Header rows of the MP list: complete, and with the Party column missing
MpHeaderPool == {mp_headers, <<"Constituency", "Name (Display as)", "Email">>}

\* Roster rows: two constituencies with one canonical key, an empty
\* constituency, one whose key is empty, a short row (no Email, no Party
\* cell), and the specification's example
RosterPool ==
  {<<"East Ham", "Ann", "ann@mp", "Labour">>,
   <<"Ham East", "Bob", "bob@mp", "Conservative">>,
   <<"", "Cat", "cat@mp", "Labour">>,
   <<"&", "Dan", "dan@mp", "Labour">>,
   <<"St. Ives", "Eve">>,
   <<"Cities of London and Westminster", "Fay", "fay@mp", "Conservative">>}

\* Header rows of the analysis table: the columns in both orders, without
\* entity_name, and without the required unit_name
AnalysisHeaderPool ==
  {<<"unit_name", "entity_name">>, <<"entity_name", "unit_name">>,
   <<"unit_name">>, <<"entity_name">>}

\* Analysis rows: matching and non-matching parties, an empty unit name, one
\* whose key is empty, an empty entity name, a short row and a long row
AnalysisPool ==
  {<<"East Ham CLP", "LABOUR Party">>,
   <<"East Ham">>,
   <<"", "Labour Party">>,
   <<"&", "Labour Party">>,
   <<"Saint Ives", "Labour Party">>,
   <<"Cities of London & Westminster", "Conservative and Unionist Party">>,
   <<"East Ham", "">>,
   <<"East Ham", "Labour Party", "extra">>}

\* create_canonical_key over the cells of the pools, computed once: the loops
\* below call create_canonical_key on these texts again and again
PoolCells == UNION {{row[i] : i \in 1..Len(row)} : row \in RosterPool \cup AnalysisPool}

CanonicalKeyOfCell == [s \in PoolCells |-> create_canonical_key(PyStr(s))]

\* create_canonical_key(v) of a cell value v (a str of the pools, or None)
CellKey(v) ==
  IF v.isstr /\ v.s \in DOMAIN CanonicalKeyOfCell
  THEN CanonicalKeyOfCell[v.s]
  ELSE create_canonical_key(v)

\* ------------------------------------------------------------------------
\* 4_add_mps.py: csv.DictReader rows
\* ------------------------------------------------------------------------

\* The index of column col in the header, 0 when the header has no such column
ColumnIndex(header, col) ==
  IF \E i \in 1..Len(header) : header[i] = col
  THEN CHOOSE i \in 1..Len(header) : header[i] = col
  ELSE 0

\* row.get(col, default) of a DictReader row: a short row has None for its
\* missing cells (restval); default only when the header has no such column
RowGet(header, row, col, default) ==
  LET i == ColumnIndex(header, col)
  IN  IF i = 0 THEN default
      ELSE IF i <= Len(row) THEN PyStr(row[i])
      ELSE PyNone

\* A row with more cells than the header keeps them under the key None (restkey)
HasRestKey(header, row) == Len(row) > Len(header)

\* bool(v) of a str or None
Truthy(v) == v.isstr /\ v.s # ""

\* v or ''
OrEmpty(v) == IF Truthy(v) THEN v.s ELSE ""

\* sub in s, for str
IsSubstring(sub, s) == \E i \in 1..(Len(s) - Len(sub) + 1) : MatchAt(s, i, sub)

\* ------------------------------------------------------------------------
\* 4_add_mps.py: loading the MP list into mp_data_lookup
\* ------------------------------------------------------------------------

\* the first entry of a key kept (dict.setdefault) instead of overwritten
DictSetFirstWins(d, k, v) ==
  [x \in (DOMAIN d) \cup {k} |-> IF x \in DOMAIN d THEN d[x] ELSE v]

\* d[k] = v
DictSet(d, k, v) == [x \in (DOMAIN d) \cup {k} |-> IF x = k THEN v ELSE d[x]]

\* the test of the key left out: every key is stored
KeyUsableAlways(canonical_key) == TRUE

\* if canonical_key:
KeyUsable(canonical_key) == canonical_key # ""

\* Opening the MP list and checking its header row
OpenRoster ==
  /\ mPc = "start"
  /\ \E h \in MpHeaderPool :
       /\ mpHeader' = h
       /\ IF \A i \in 1..Len(mp_headers) : ColumnIndex(h, mp_headers[i]) > 0
          THEN mPc' = "load" /\ mErr' = ""
          ELSE mPc' = "aborted" /\ mErr' = "ValueError: MP list is missing required columns"
  /\ UNCHANGED <<mpRows, mp_data_lookup, count, duplicates, skipped_no_constituency>>
  /\ UNCHANGED analysisVars
  /\ MatcherFrame

\* One pass of the loop over the MP list's rows
LoadRow ==
  /\ mPc = "load"
  /\ Len(mpRows) < MaxRoster
  /\ \E row \in RosterPool :
       LET constituency == RowGet(mpHeader, row, "Constituency", PyNone)
           mp_name      == RowGet(mpHeader, row, "Name (Display as)", PyNone)
           mp_email     == RowGet(mpHeader, row, "Email", PyNone)
           mp_party     == RowGet(mpHeader, row, "Party", PyNone)
       IN  /\ mpRows' = Append(mpRows, row)
           /\ IF ~Truthy(constituency)
              THEN /\ skipped_no_constituency' = skipped_no_constituency + 1
                   /\ UNCHANGED <<mp_data_lookup, count, duplicates>>
              ELSE \E canonical_key \in {CellKey(constituency)} :
                     IF KeyUsable(canonical_key)
                     THEN /\ duplicates' = IF canonical_key \in DOMAIN mp_data_lookup
                                           THEN duplicates + 1 ELSE duplicates
                          /\ mp_data_lookup' =
                               DictSet(mp_data_lookup, canonical_key,
                                       [name  |-> OrEmpty(mp_name),
                                        email |-> OrEmpty(mp_email),
                                        party |-> OrEmpty(mp_party)])
                          /\ count' = count + 1
                          /\ UNCHANGED skipped_no_constituency
                     ELSE UNCHANGED <<mp_data_lookup, count, duplicates,
                                      skipped_no_constituency>>
  /\ UNCHANGED <<mPc, mErr, mpHeader>>
  /\ UNCHANGED analysisVars
  /\ MatcherFrame

\* The MP list is exhausted
EndRoster ==
  /\ mPc = "load"
  /\ mPc' = "open"
  /\ UNCHANGED <<mErr, rosterVars, analysisVars>>
  /\ MatcherFrame

\* ------------------------------------------------------------------------
\* 4_add_mps.py: processing the analysis results
\* ------------------------------------------------------------------------

\* Opening the analysis table, checking its header, creating the output file
\* and writing its header row
OpenAnalysis ==
  /\ mPc = "open"
  /\ \E h \in AnalysisHeaderPool :
       /\ anHeader' = h
       /\ IF ColumnIndex(h, "unit_name") > 0
          THEN mPc' = "process" /\ mErr' = "" /\ outOpen' = TRUE
          ELSE /\ mPc' = "aborted"
               /\ mErr' = "ValueError: analysis table is missing unit_name"
               /\ outOpen' = FALSE
  /\ UNCHANGED <<anRows, outRows, processed_rows, matched_rows>>
  /\ UNCHANGED rosterVars
  /\ MatcherFrame

\* the party compared without lower-casing either name
PartyGateCaseSensitive(mp_party, entity_name) ==
  mp_party # "" /\ entity_name # "" /\ IsSubstring(mp_party, entity_name)

\* mp_party_lower and entity_name_lower and mp_party_lower in entity_name_lower
PartyGate(mp_party, entity_name) ==
  LET mp_party_lower    == StrLower(mp_party)
      entity_name_lower == StrLower(entity_name)
  IN  /\ mp_party_lower # ""
      /\ entity_name_lower # ""
      /\ IsSubstring(mp_party_lower, entity_name_lower)

\* One pass of the loop over the analysis rows. entity_name.lower() raises
\* AttributeError on None, and DictWriter.writerow raises ValueError on a row
\* that has the key None; both end the stage with exit(1)
ProcessRow ==
  /\ mPc = "process"
  /\ Len(anRows) < MaxAnalysis
  /\ \E row \in AnalysisPool :
     \E canonical_key_from_analysis \in
          {CellKey(RowGet(anHeader, row, "unit_name", PyStr("")))} :
       LET entity_name == RowGet(anHeader, row, "entity_name", PyStr(""))
           found   == canonical_key_from_analysis \in DOMAIN mp_data_lookup
           mp_info == mp_data_lookup[canonical_key_from_analysis]
           raises  == found /\ ~entity_name.isstr
       IN  /\ anRows' = Append(anRows, row)
           /\ processed_rows' = processed_rows + 1
           /\ IF raises
              THEN /\ mPc' = "aborted"
                   /\ mErr' = "AttributeError: 'NoneType' object has no attribute 'lower'"
                   /\ UNCHANGED <<matched_rows, outRows>>
              ELSE \E match_found \in {found /\ PartyGate(mp_info.party, entity_name.s)} :
                   /\ matched_rows' = IF match_found THEN matched_rows + 1 ELSE matched_rows
                   /\ IF HasRestKey(anHeader, row)
                      THEN /\ mPc' = "aborted"
                           /\ mErr' = "ValueError: dict contains fields not in fieldnames"
                           /\ UNCHANGED outRows
                      ELSE /\ outRows' =
                                Append(outRows,
                                       [row         |-> row,
                                        mp_name     |-> IF match_found THEN mp_info.name ELSE "",
                                        mp_email    |-> IF match_found THEN mp_info.email ELSE "",
                                        match_found |-> match_found])
                           /\ UNCHANGED <<mPc, mErr>>
  /\ UNCHANGED <<anHeader, outOpen>>
  /\ UNCHANGED rosterVars
  /\ MatcherFrame

\* The analysis table is exhausted: both files are closed
EndAnalysis ==
  /\ mPc = "process"
  /\ mPc' = "done"
  /\ UNCHANGED <<mErr, rosterVars, analysisVars>>
  /\ MatcherFrame

MatcherInit == KeyIdle /\ MatcherIdle /\ DedupeIdle /\ ChartIdle /\ HtmlIdle /\ PipeIdle

MatcherNext == OpenRoster \/ LoadRow \/ EndRoster \/ OpenAnalysis \/ ProcessRow \/ EndAnalysis

SpecMatcher == MatcherInit /\ [][MatcherNext]_vars

\* ------------------------------------------------------------------------
\* Claims about the matcher
\* ------------------------------------------------------------------------

\* The fields of the i-th analysis row read, and its canonical key
UnitNameOf(i) == RowGet(anHeader, anRows[i], "unit_name", PyStr(""))

EntityNameOf(i) == RowGet(anHeader, anRows[i], "entity_name", PyStr(""))

UnitKeyOf(i) == CellKey(UnitNameOf(i))

\* The acceptance rule of the specification for the i-th analysis row: the
\* key of unit_name is in the lookup, and the stored party, lower-cased, is a
\* non-empty substring of the lower-cased entity_name
Accepted(i) ==
  /\ UnitKeyOf(i) \in DOMAIN mp_data_lookup
  /\ EntityNameOf(i).isstr
  /\ mp_data_lookup[UnitKeyOf(i)].party # ""
  /\ IsSubstring(StrLower(mp_data_lookup[UnitKeyOf(i)].party), StrLower(EntityNameOf(i).s))

\* C3: an analysis record's match is accepted if and only if the canonical key
\* of unit_name is in the lookup and the stored party, lower-cased, is a
\* non-empty substring of the lower-cased entity_name; every other record is
\* written with blank MP fields. The roster row "Cities of London and
\* Westminster" / "Conservative" matches "Cities of London & Westminster" /
\* "Conservative and Unionist Party".
C3_MatchIffPartyGate ==
  /\ \A i \in 1..Len(outRows) : \A accepted \in {Accepted(i)} :
       /\ outRows[i].row = anRows[i]
       /\ outRows[i].match_found = accepted
       /\ outRows[i].mp_name =
            IF accepted THEN mp_data_lookup[UnitKeyOf(i)].name ELSE ""
       /\ outRows[i].mp_email =
            IF accepted THEN mp_data_lookup[UnitKeyOf(i)].email ELSE ""
       /\ ( /\ anHeader = <<"unit_name", "entity_name">>
            /\ anRows[i] = <<"Cities of London & Westminster",
                             "Conservative and Unionist Party">>
            /\ \E j \in 1..Len(mpRows) :
                 mpRows[j] = <<"Cities of London and Westminster", "Fay", "fay@mp",
                               "Conservative">> )
          => (accepted /\ outRows[i].mp_name = "Fay" /\ outRows[i].mp_email = "fay@mp")
  /\ matched_rows = Cardinality({i \in 1..Len(anRows) : Accepted(i)})

C3_Witness ==
  /\ mPc = "done"
  /\ Len(outRows) = 2
  /\ outRows[1].row = <<"East Ham", "">>
  /\ UnitKeyOf(1) \in DOMAIN mp_data_lookup
  /\ ~outRows[1].match_found
  /\ outRows[2].row = <<"Cities of London & Westminster", "Conservative and Unionist Party">>
  /\ outRows[2].match_found
  /\ outRows[2].mp_name = "Fay"
  /\ matched_rows = 1

\* C4: the empty canonical key is never a valid match: the lookup never holds
\* an entry under the empty key, a record whose unit_name is missing or has
\* the empty key is never matched, is written with blank mp_name and
\* mp_email, and its lookup raises nothing.
C4_EmptyKeyNeverMatches ==
  /\ "" \notin DOMAIN mp_data_lookup
  /\ \A i \in 1..Len(outRows) :
       UnitKeyOf(i) = ""
         => (~outRows[i].match_found /\ outRows[i].mp_name = "" /\ outRows[i].mp_email = "")
  /\ \A i \in 1..Len(anRows) :
       (UnitKeyOf(i) = "" /\ i > Len(outRows))
         => (mErr = "ValueError: dict contains fields not in fieldnames"
             /\ matched_rows = Cardinality({j \in 1..Len(outRows) : outRows[j].match_found}))

C4_Witness ==
  /\ mPc = "done"
  /\ mpRows = << <<"&", "Dan", "dan@mp", "Labour">>, <<"", "Cat", "cat@mp", "Labour">> >>
  /\ DOMAIN mp_data_lookup = {}
  /\ anHeader = <<"entity_name", "unit_name">>
  /\ anRows = << <<"East Ham">>, <<"&", "Labour Party">> >>
  /\ ~UnitNameOf(1).isstr
  /\ Len(outRows) = 2
  /\ outRows[1].mp_name = ""
  /\ outRows[2].mp_email = ""

\* The i-th roster row read: its constituency, whether it is stored, its key
\* and the entry stored for it
ConstituencyOf(i) == RowGet(mpHeader, mpRows[i], "Constituency", PyNone)

Stored(i) == Truthy(ConstituencyOf(i)) /\ CellKey(ConstituencyOf(i)) # ""

EntryOf(i) ==
  [name  |-> OrEmpty(RowGet(mpHeader, mpRows[i], "Name (Display as)", PyNone)),
   email |-> OrEmpty(RowGet(mpHeader, mpRows[i], "Email", PyNone)),
   party |-> OrEmpty(RowGet(mpHeader, mpRows[i], "Party", PyNone))]

RowKeyOf(i) == CellKey(ConstituencyOf(i))

RowsOfKey(k) == {i \in 1..Len(mpRows) : Stored(i) /\ RowKeyOf(i) = k}

SetMax(S) == CHOOSE x \in S : \A y \in S : y <= x

\* C5: building the lookup is last-write-wins: every key of the lookup holds
\* the name, email and party of the last roster row with that key, the keys of
\* the lookup are the non-empty keys of the rows read, the duplicates counter
\* is the number of rows whose key was already present, and no roster row
\* aborts the load.
C5_LastWriteWins ==
  /\ \A k \in DOMAIN mp_data_lookup : \A rows \in {RowsOfKey(k)} :
       /\ k # ""
       /\ rows # {}
       /\ mp_data_lookup[k] = EntryOf(SetMax(rows))
  /\ \A i \in 1..Len(mpRows) : Stored(i) => RowKeyOf(i) \in DOMAIN mp_data_lookup
  /\ duplicates =
       Cardinality({i \in 1..Len(mpRows) :
                      Stored(i) /\ \E j \in 1..(i - 1) : Stored(j) /\ RowKeyOf(j) = RowKeyOf(i)})
  /\ count = Cardinality({i \in 1..Len(mpRows) : Stored(i)})
  /\ (mPc = "aborted" /\ mpRows # <<>>) => anHeader # <<>>

C5_Witness ==
  /\ mPc = "open"
  /\ mpRows = << <<"East Ham", "Ann", "ann@mp", "Labour">>,
                 <<"Ham East", "Bob", "bob@mp", "Conservative">> >>
  /\ duplicates = 1
  /\ DOMAIN mp_data_lookup = {"east ham"}
  /\ mp_data_lookup["east ham"] = [name |-> "Bob", email |-> "bob@mp", party |-> "Conservative"]

\* C6: the matcher never fails on a data row: once the header is accepted,
\* every row read (complete or short of cells) has exactly one output row,
\* with blank mp_name and mp_email when no match is accepted, and no such row
\* aborts the stage.
C6_NeverFailsOnARow ==
  (outOpen /\ \A i \in 1..Len(anRows) : ~HasRestKey(anHeader, anRows[i]))
    => /\ mPc # "aborted"
       /\ Len(outRows) = Len(anRows)
       /\ processed_rows = Len(anRows)
       /\ \A i \in 1..Len(outRows) :
            ~Accepted(i) => (outRows[i].mp_name = "" /\ outRows[i].mp_email = "")

\* ------------------------------------------------------------------------
\* 0_dedupe_data.py: cells, numbers and the pandas operations of the script
\* ------------------------------------------------------------------------

EARLIEST_ACCOUNTS == 2021

\* A cell as read_csv gives it: an empty cell is NaN (here PyNone)
ReadCell(s) == IF s = "" THEN PyNone ELSE PyStr(s)

RECURSIVE StrStrip(_)
\* str.strip()
StrStrip(s) ==
  IF s = "" THEN ""
  ELSE IF IsSpaceChar(Head(s)) THEN StrStrip(Tail(s))
  ELSE IF IsSpaceChar(Ch(s, Len(s))) THEN StrStrip(SubSeq(s, 1, Len(s) - 1))
  ELSE s

\* Series.str.strip(): NaN stays NaN
StripCell(c) == IF c.isstr THEN PyStr(StrStrip(c.s)) ELSE c

RECURSIVE ReplaceIgnoreCase(_, _, _)
\* Series.str.replace(old, new, case=False, regex=False) on one str: every
\* occurrence of old, in any case, wherever it stands
ReplaceIgnoreCase(s, old, new) ==
  IF Len(s) < Len(old) THEN s
  ELSE IF StrLower(SubSeq(s, 1, Len(old))) = StrLower(old)
       THEN new \o ReplaceIgnoreCase(SubSeq(s, Len(old) + 1, Len(s)), old, new)
       ELSE Head(s) \o ReplaceIgnoreCase(Tail(s), old, new)

\* A number is m / 10^e; NaN is a number too
NaN == [nan |-> TRUE, m |-> 0, e |-> 0]

Number(m, e) == [nan |-> FALSE, m |-> m, e |-> e]

RECURSIVE Pow10(_)
Pow10(n) == IF n = 0 THEN 1 ELSE 10 * Pow10(n - 1)

AllDigits(s) == \A i \in 1..Len(s) : Ch(s, i) \in CharsOf(DigitChars)

RECURSIVE DigitsValue(_)
\* int(s) of a string of digits, 0 for the empty string
DigitsValue(s) ==
  IF s = "" THEN 0
  ELSE 10 * DigitsValue(SubSeq(s, 1, Len(s) - 1)) + Pos(Ch(s, Len(s)), DigitChars) - 1

\* pd.to_numeric(cell, errors='coerce') of one cell, for texts made of a sign,
\* digits and a decimal point (surrounding whitespace allowed); every other
\* text of the model's alphabet, the empty text and NaN give NaN
to_numeric(cell) ==
  IF ~cell.isstr THEN NaN
  ELSE LET t      == StrStrip(cell.s)
           signed == t # "" /\ Head(t) \in {"+", "-"}
           body   == IF signed THEN Tail(t) ELSE t
           dot    == Pos(".", body)
           ip     == IF dot = 0 THEN body ELSE SubSeq(body, 1, dot - 1)
           fp     == IF dot = 0 THEN "" ELSE SubSeq(body, dot + 1, Len(body))
       IN  IF AllDigits(ip) /\ AllDigits(fp) /\ Len(ip) + Len(fp) > 0
           THEN Number((IF signed /\ Head(t) = "-" THEN -1 ELSE 1) * DigitsValue(ip \o fp),
                       Len(fp))
           ELSE NaN

\* pd.to_numeric(ECRef.str.replace('ST', '', case=False, regex=False),
\* errors='coerce') of one cell
ECRef_Numeric(cell) ==
  IF cell.isstr THEN to_numeric(PyStr(ReplaceIgnoreCase(cell.s, "ST", ""))) ELSE NaN

\* a < b and a = b of two numbers that are not NaN
NumLess(a, b) == a.m * Pow10(b.e) < b.m * Pow10(a.e)

NumEq(a, b) == a.m * Pow10(b.e) = b.m * Pow10(a.e)

\* column >= EARLIEST_ACCOUNTS: False for NaN
YearKept(year) == ~year.nan /\ ~NumLess(year, Number(EARLIEST_ACCOUNTS, 0))

\* column == 'Great Britain': False for NaN
RegisterKept(register) == register.isstr /\ register.s = "Great Britain"

\* The order of two name cells in an ascending sort with na_position='last':
\* -1 when x sorts first, 1 when y sorts first, 0 when they are equal
NameCmp(x, y) ==
  IF x = y THEN 0
  ELSE IF ~x.isstr THEN 1
  ELSE IF ~y.isstr THEN -1
  ELSE IF StrLess(x.s, y.s) THEN -1 ELSE 1

\* ECRef_Numeric sorted ascending instead of descending
ECRefCmpAscending(x, y) ==
  IF x.nan /\ y.nan THEN 0
  ELSE IF x.nan THEN 1
  ELSE IF y.nan THEN -1
  ELSE IF NumEq(x, y) THEN 0
  ELSE IF NumLess(x, y) THEN -1 ELSE 1

\* The order of two ECRef_Numeric values in a descending sort with
\* na_position='last'
ECRefCmp(x, y) ==
  IF x.nan /\ y.nan THEN 0
  ELSE IF x.nan THEN 1
  ELSE IF y.nan THEN -1
  ELSE IF NumEq(x, y) THEN 0
  ELSE IF NumLess(y, x) THEN -1 ELSE 1

\* by=['RegulatedEntityName', 'AccountingUnitName', 'ECRef_Numeric'],
\* ascending=[True, True, False]
RowCmp(a, b) ==
  IF NameCmp(a.entity, b.entity) # 0 THEN NameCmp(a.entity, b.entity)
  ELSE IF NameCmp(a.unit, b.unit) # 0 THEN NameCmp(a.unit, b.unit)
  ELSE ECRefCmp(a.ecref_num, b.ecref_num)

RECURSIVE InsertRow(_, _)
\* r put behind every row that does not sort after it (the sort is stable)
InsertRow(r, sorted) ==
  IF sorted = <<>> THEN <<r>>
  ELSE IF RowCmp(r, Head(sorted)) < 0 THEN <<r>> \o sorted
  ELSE <<Head(sorted)>> \o InsertRow(r, Tail(sorted))

RECURSIVE sort_values(_)
\* DataFrame.sort_values
sort_values(rows) ==
  IF rows = <<>> THEN <<>>
  ELSE InsertRow(rows[Len(rows)], sort_values(SubSeq(rows, 1, Len(rows) - 1)))

\* df[mask]: the rows at the positions of kept, in their order
KeepRows(rows, kept) ==
  LET F[i \in 0..Len(rows)] ==
        IF i = 0 THEN <<>> ELSE IF i \in kept THEN Append(F[i - 1], rows[i]) ELSE F[i - 1]
  IN  F[Len(rows)]

\* duplicates dropped on AccountingUnitName alone
drop_duplicates_by_unit(rows) ==
  KeepRows(rows, {i \in 1..Len(rows) : \A j \in 1..(i - 1) : rows[j].unit # rows[i].unit})

\* DataFrame.drop_duplicates(subset=['RegulatedEntityName', 'AccountingUnitName'],
\* keep='first'); NaN equals NaN here
drop_duplicates(rows) ==
  KeepRows(rows, {i \in 1..Len(rows) :
                    \A j \in 1..(i - 1) :
                      rows[j].entity # rows[i].entity \/ rows[j].unit # rows[i].unit})

\* ------------------------------------------------------------------------
\* 0_dedupe_data.py: inputs and the steps of the script
\* ------------------------------------------------------------------------

\* Most filings of an input table
MaxFilings == 3

\* A row of accounting_units.csv, cells as written in the file
Filing(entity, unit, ecref, register, period) ==
  [entity |-> entity, unit |-> unit, ecref |-> ecref, register |-> register,
   period |-> period]

\* Filings of the input tables: three filings of one unit with the ECRefs
\* ST001, ST015 and 7, a filing of the wrong register with the highest ECRef
\* and untrimmed names, unparsable and missing ECRefs, a second unit and a
\* second party, a name that differs in case only, and reporting periods that
\* are not plain years. Names and registers are non-empty texts, so read_csv
\* gives these columns as strings
FilingPool ==
  {Filing("Labour Party", "East Ham", "ST001", "Great Britain", "2020"),
   Filing("Labour Party", "East Ham", "ST015", "Great Britain", "2022"),
   Filing("Labour Party", "East Ham", "7", "Great Britain", "2023"),
   Filing("Labour Party ", " East Ham", "ST020", "Northern Ireland", "2023"),
   Filing("Labour Party", " East Ham ", "X9", "Great Britain ", " 2022"),
   Filing("Labour Party", "West Ham", "", "Great Britain", "2021"),
   Filing("Conservative", "East Ham", "st30", "Great Britain", "2021"),
   Filing("Labour Party", "east ham", "1ST2", "Great Britain", "2022"),
   Filing("Labour Party", "West Ham", "ST3", "great britain", "2021"),
   Filing("Labour Party", "West Ham", "ST4", "Great Britain", "2021.5"),
   Filing("Labour Party", "West Ham", "ST5", "Great Britain", "2021/22"),
   Filing("Labour Party", "West Ham", "ST6", "Great Britain", "")}

InputTables == UNION {[1..n -> FilingPool] : n \in 0..MaxFilings}

DedupeInit ==
  /\ KeyIdle
  /\ MatcherIdle
  /\ ChartIdle
  /\ HtmlIdle
  /\ PipeIdle
  /\ dPc = "read"
  /\ dIn \in InputTables
  /\ df = <<>>
  /\ dWritten = FALSE
  /\ dOut = <<>>

\* pd.read_csv and the five .str.strip() of the key columns; idx is the row's
\* index label
ReadAndStrip ==
  /\ dPc = "read"
  /\ df' = [i \in 1..Len(dIn) |->
              [idx      |-> i,
               entity   |-> StripCell(ReadCell(dIn[i].entity)),
               unit     |-> StripCell(ReadCell(dIn[i].unit)),
               ecref    |-> StripCell(ReadCell(dIn[i].ecref)),
               register |-> StripCell(ReadCell(dIn[i].register)),
               period   |-> StripCell(ReadCell(dIn[i].period)),
               year_num  |-> NaN,
               ecref_num |-> NaN]]
  /\ dPc' = "filter_year"
  /\ UNCHANGED <<dIn, dWritten, dOut>>
  /\ DedupeFrame

\* ReportingYear_Numeric and the filter on it
FilterYear ==
  /\ dPc = "filter_year"
  /\ LET withYear == [i \in 1..Len(df) |->
                        [df[i] EXCEPT !.year_num = to_numeric(df[i].period)]]
     IN  df' = KeepRows(withYear, {i \in 1..Len(df) : YearKept(withYear[i].year_num)})
  /\ dPc' = "filter_register"
  /\ UNCHANGED <<dIn, dWritten, dOut>>
  /\ DedupeFrame

\* The filter on RegisterName
FilterRegister ==
  /\ dPc = "filter_register"
  /\ df' = KeepRows(df, {i \in 1..Len(df) : RegisterKept(df[i].register)})
  /\ dPc' = "filtered"
  /\ UNCHANGED <<dIn, dWritten, dOut>>
  /\ DedupeFrame

\* if df.empty: nothing is de-duplicated and nothing is saved
NothingToSave ==
  /\ dPc = "filtered"
  /\ df = <<>>
  /\ dPc' = "done"
  /\ UNCHANGED <<dIn, df, dWritten, dOut>>
  /\ DedupeFrame

\* ECRef_Numeric: ECRef without its "ST", as a number
AddECRefNumeric ==
  /\ dPc = "filtered"
  /\ df # <<>>
  /\ df' = [i \in 1..Len(df) |->
              [df[i] EXCEPT !.ecref_num = ECRef_Numeric(df[i].ecref)]]
  /\ dPc' = "sort"
  /\ UNCHANGED <<dIn, dWritten, dOut>>
  /\ DedupeFrame

\* df_sorted
SortValues ==
  /\ dPc = "sort"
  /\ df' = sort_values(df)
  /\ dPc' = "dedupe"
  /\ UNCHANGED <<dIn, dWritten, dOut>>
  /\ DedupeFrame

\* df_deduplicated
DropDuplicates ==
  /\ dPc = "dedupe"
  /\ df' = drop_duplicates(df)
  /\ dPc' = "save"
  /\ UNCHANGED <<dIn, dWritten, dOut>>
  /\ DedupeFrame

\* The temporary columns dropped and the table written to accounting_units2.csv
SaveCsv ==
  /\ dPc = "save"
  /\ dOut' = [i \in 1..Len(df) |->
                [idx |-> df[i].idx, entity |-> df[i].entity, unit |-> df[i].unit,
                 ecref |-> df[i].ecref, register |-> df[i].register,
                 period |-> df[i].period]]
  /\ dWritten' = TRUE
  /\ dPc' = "done"
  /\ UNCHANGED <<dIn, df>>
  /\ DedupeFrame

DedupeNext ==
  \/ ReadAndStrip \/ FilterYear \/ FilterRegister \/ NothingToSave
  \/ AddECRefNumeric \/ SortValues \/ DropDuplicates \/ SaveCsv

SpecDedupe == DedupeInit /\ [][DedupeNext]_vars

\* ------------------------------------------------------------------------
\* 0_dedupe_data.py: one filing per unit, and which filing
\* ------------------------------------------------------------------------

\* The trimmed (RegulatedEntityName, AccountingUnitName) of input row i
PairOfFiling(i) ==
  <<StripCell(ReadCell(dIn[i].entity)), StripCell(ReadCell(dIn[i].unit))>>

\* Input row i passes the year filter and the register filter
Survives(i) ==
  /\ YearKept(to_numeric(StripCell(ReadCell(dIn[i].period))))
  /\ RegisterKept(StripCell(ReadCell(dIn[i].register)))

\* The input rows that pass the filters
Survivors == {i \in 1..Len(dIn) : Survives(i)}

\* The parsed ECRef of input row i
KeyOfFiling(i) == ECRef_Numeric(StripCell(ReadCell(dIn[i].ecref)))

\* C9: when the script has ended, every trimmed (RegulatedEntityName,
\* AccountingUnitName) pair with a filing that passes the filters stands in
\* exactly one output row, and every output row's pair is such a pair
C9_OneFilingPerUnit ==
  dPc = "done" =>
    /\ \A i \in Survivors :
         Cardinality({j \in 1..Len(dOut) :
                        <<dOut[j].entity, dOut[j].unit>> = PairOfFiling(i)}) = 1
    /\ \A j \in 1..Len(dOut) :
         \E i \in Survivors : <<dOut[j].entity, dOut[j].unit>> = PairOfFiling(i)

\* A table with two surviving filings of one unit and a surviving filing of
\* another unit has been written as two rows
C9_Witness ==
  /\ dPc = "done"
  /\ dWritten
  /\ Len(dOut) = 2
  /\ \E i, j \in Survivors : i # j /\ PairOfFiling(i) = PairOfFiling(j)

\* The filings of the example: ECRefs ST001, ST015 and 7 of the years 2020,
\* 2022 and 2023, all of one unit
ExampleFilings ==
  {Filing("Labour Party", "East Ham", "ST001", "Great Britain", "2020"),
   Filing("Labour Party", "East Ham", "ST015", "Great Britain", "2022"),
   Filing("Labour Party", "East Ham", "7", "Great Britain", "2023")}

\* C10: when the script has ended, every output row is an input row that
\* passes the filters, trimmed, and no filing of its unit that passes the
\* filters has a higher parsed ECRef; its own ECRef is unparsable only if no
\* passing filing of the unit has a parsable one. For the three filings of
\* the example, in any order, the output is exactly the ST015 filing
C10_HighestECRefKept ==
  dPc = "done" =>
    /\ \A j \in 1..Len(dOut) :
         LET i == dOut[j].idx
         IN  /\ i \in Survivors
             /\ <<dOut[j].entity, dOut[j].unit>> = PairOfFiling(i)
             /\ dOut[j].ecref = StripCell(ReadCell(dIn[i].ecref))
             /\ dOut[j].period = StripCell(ReadCell(dIn[i].period))
             /\ dOut[j].register = StripCell(ReadCell(dIn[i].register))
             /\ \A k \in Survivors :
                  (PairOfFiling(k) = PairOfFiling(i) /\ ~KeyOfFiling(k).nan) =>
                    /\ ~KeyOfFiling(i).nan
                    /\ ~NumLess(KeyOfFiling(i), KeyOfFiling(k))
    /\ (Len(dIn) = 3 /\ {dIn[i] : i \in 1..Len(dIn)} = ExampleFilings) =>
         /\ Len(dOut) = 1
         /\ dOut[1].ecref = PyStr("ST015")
         /\ dOut[1].period = PyStr("2022")

\* The ST015 filing has been written for a unit that also has a surviving
\* filing with a lower ECRef, a surviving filing with an unparsable ECRef or a
\* filing with a higher ECRef that the filters removed
C10_Witness ==
  /\ dPc = "done"
  /\ Len(dOut) = 1
  /\ dOut[1].ecref = PyStr("ST015")
  /\ \E k \in Survivors :
       /\ k # dOut[1].idx
       /\ PairOfFiling(k) = PairOfFiling(dOut[1].idx)
  /\ \E k \in 1..Len(dIn) :
       /\ k \notin Survivors
       /\ PairOfFiling(k) = PairOfFiling(dOut[1].idx)
       /\ ~KeyOfFiling(k).nan
       /\ NumLess(KeyOfFiling(dOut[1].idx), KeyOfFiling(k))

\* ------------------------------------------------------------------------
\* 0_dedupe_data.py: what the filters keep and what the ECRef key is
\* ------------------------------------------------------------------------

\* A cell that is a plain integer year: digits only, at least one
PlainIntegerYear(cell) == cell.isstr /\ cell.s # "" /\ AllDigits(cell.s)

\* Input row i, trimmed, is a filing of a plain integer year from the cutoff
\* on and of the register "Great Britain"
PassesStatedFilter(i) ==
  LET period == StripCell(ReadCell(dIn[i].period))
  IN  /\ PlainIntegerYear(period)
      /\ DigitsValue(period.s) >= EARLIEST_ACCOUNTS
      /\ StripCell(ReadCell(dIn[i].register)) = PyStr("Great Britain")

\* C11: when the script has ended, every output row is an input row whose
\* reporting period is a plain integer year >= 2021 and whose register is
\* exactly "Great Britain"; an input row with any other period (empty,
\* "2021/22", "2021.5", below the cutoff) or register is not in the output
C11_FilterKeepsPlainYears ==
  dPc = "done" =>
    \A j \in 1..Len(dOut) :
      /\ PassesStatedFilter(dOut[j].idx)
      /\ PlainIntegerYear(dOut[j].period)
      /\ DigitsValue(dOut[j].period.s) >= EARLIEST_ACCOUNTS
      /\ dOut[j].register = PyStr("Great Britain")

\* The key of an ECRef cell as stated: a leading "ST" in any case removed, the
\* rest parsed as an integer; NaN when the rest is not an integer
StatedKey(cell) ==
  IF ~cell.isstr THEN NaN
  ELSE LET rest == IF Len(cell.s) >= 2 /\ StrLower(SubSeq(cell.s, 1, 2)) = "st"
                   THEN SubSeq(cell.s, 3, Len(cell.s))
                   ELSE cell.s
       IN  IF rest # "" /\ AllDigits(rest) THEN Number(DigitsValue(rest), 0) ELSE NaN

\* C12: once ECRef_Numeric is computed, the key of every row is its ECRef
\* without a leading "ST", parsed as an integer, and the key of an ECRef
\* whose rest is not an integer (such as "1ST2") is NaN, which sorts last
C12_KeyIsPrefixStrippedInteger ==
  dPc \in {"sort", "dedupe", "save"} =>
    \A i \in 1..Len(df) :
      /\ df[i].ecref_num.nan = StatedKey(df[i].ecref).nan
      /\ ~df[i].ecref_num.nan => NumEq(df[i].ecref_num, StatedKey(df[i].ecref))

\* ------------------------------------------------------------------------
\* 7_generate_charts.py: numbers, names and the category of a row
\* ------------------------------------------------------------------------

THRESHOLD_AMOUNT == 1

\* A Python float, or None: a finite float is m / 10^e
FloatNone == [kind |-> "None", m |-> 0, e |-> 0]

FloatNaN == [kind |-> "nan", m |-> 0, e |-> 0]

FloatInf == [kind |-> "inf", m |-> 0, e |-> 0]

FloatNegInf == [kind |-> "-inf", m |-> 0, e |-> 0]

Float(m, e) == [kind |-> "num", m |-> m, e |-> e]

\* 0.10
THRESHOLD_RATE == Float(10, 2)

\* a < b of two floats: False when either is NaN
FloatLess(a, b) ==
  IF a.kind = "nan" \/ b.kind = "nan" THEN FALSE
  ELSE IF a.kind = "-inf" THEN b.kind # "-inf"
  ELSE IF a.kind = "inf" THEN FALSE
  ELSE IF b.kind = "inf" THEN TRUE
  ELSE IF b.kind = "-inf" THEN FALSE
  ELSE a.m * Pow10(b.e) < b.m * Pow10(a.e)

\* a == b of two floats: False when either is NaN
FloatEq(a, b) ==
  IF a.kind = "nan" \/ b.kind = "nan" THEN FALSE
  ELSE IF a.kind = "num" /\ b.kind = "num" THEN a.m * Pow10(b.e) = b.m * Pow10(a.e)
  ELSE a.kind = b.kind

\* a <= b
FloatLe(a, b) == FloatLess(a, b) \/ FloatEq(a, b)

RECURSIVE RemoveChars(_, _)
\* re.sub of a character class by "": s without the characters of chars
RemoveChars(s, chars) ==
  IF s = "" THEN ""
  ELSE (IF Head(s) \in chars THEN "" ELSE Head(s)) \o RemoveChars(Tail(s), chars)

\* float(t) inside try/except, None when it raises: for texts made of a
\* sign, digits and a decimal point, and the words nan, inf and infinity in
\* any case; texts with an exponent or an underscore are not in the model
ParseFloat(t) ==
  LET u      == StrStrip(t)
      signed == u # "" /\ Head(u) \in {"+", "-"}
      neg    == signed /\ Head(u) = "-"
      body   == IF signed THEN Tail(u) ELSE u
      dot    == Pos(".", body)
      ip     == IF dot = 0 THEN body ELSE SubSeq(body, 1, dot - 1)
      fp     == IF dot = 0 THEN "" ELSE SubSeq(body, dot + 1, Len(body))
  IN  IF StrLower(body) = "nan" THEN FloatNaN
      ELSE IF StrLower(body) \in {"inf", "infinity"}
           THEN (IF neg THEN FloatNegInf ELSE FloatInf)
      ELSE IF AllDigits(ip) /\ AllDigits(fp) /\ Len(ip) + Len(fp) > 0
           THEN Float((IF neg THEN -1 ELSE 1) * DigitsValue(ip \o fp), Len(fp))
      ELSE FloatNone

safe_float_convert(value_str) ==
  IF ~value_str.isstr THEN FloatNone
  ELSE LET cleaned_str == StrStrip(RemoveChars(value_str.s, {"£", ","}))
       IN  IF cleaned_str = "" THEN FloatNone ELSE ParseFloat(cleaned_str)

get_combined_name(unit_name, entity_name) ==
  LET unit   == IF Truthy(unit_name) THEN StrStrip(unit_name.s) ELSE ""
      entity == IF Truthy(entity_name) THEN StrStrip(entity_name.s) ELSE ""
  IN  IF unit = "" \/ entity = "" THEN PyNone
      ELSE PyStr(StrLower(unit \o " " \o entity))

\* No name is renamed
normalise_party_skipped(party_name) == party_name

normalise_party(party_name) ==
  IF party_name = "Co-operative Party" THEN "Labour Party"
  ELSE IF party_name = "Plaid Cymru - The Party of Wales" THEN "Plaid Cymru"
  ELSE IF party_name = "Scottish National Party (SNP)" THEN "Scottish National Party"
  ELSE IF party_name = "Conservative and Unionist Party" THEN "Conservative"
  ELSE party_name

category_names_map ==
  [n \in 1..4 |->
     IF n = 1 THEN "No rental income"
     ELSE IF n = 2 THEN "Tax paid"
     ELSE IF n = 3 THEN "Low tax paid"
     ELSE "No tax paid"]

\* elif tax_rate is not None and 0 < tax_rate < THRESHOLD_RATE
IsLowTax(tax_rate) ==
  tax_rate.kind # "None" /\ FloatLess(Float(0, 0), tax_rate) /\ FloatLess(tax_rate, THRESHOLD_RATE)

\* elif tax_rate is None or tax_rate == 0
IsNoTax(tax_rate) == tax_rate.kind = "None" \/ FloatEq(tax_rate, Float(0, 0))

\* Tax paid only above the threshold rate
IsTaxPaidStrict(tax_rate) == tax_rate.kind # "None" /\ FloatLess(THRESHOLD_RATE, tax_rate)

\* if tax_rate is not None and tax_rate >= THRESHOLD_RATE
IsTaxPaid(tax_rate) == tax_rate.kind # "None" /\ FloatLe(THRESHOLD_RATE, tax_rate)

\* No rental income only below the threshold amount
IsNoRentalIncomeStrict(rental_income) ==
  rental_income.kind = "None" \/ FloatLess(rental_income, Float(THRESHOLD_AMOUNT, 0))

\* if rental_income is None or rental_income <= THRESHOLD_AMOUNT
IsNoRentalIncome(rental_income) ==
  rental_income.kind = "None" \/ FloatLe(rental_income, Float(THRESHOLD_AMOUNT, 0))

\* category_num of a row after the if/elif chain, 0 for None
CategoryOf(rental_income, tax_rate) ==
  IF IsNoRentalIncome(rental_income) THEN 1
  ELSE IF FloatLess(Float(THRESHOLD_AMOUNT, 0), rental_income)
       THEN (IF IsTaxPaid(tax_rate) THEN 2
             ELSE IF IsLowTax(tax_rate) THEN 3
             ELSE IF IsNoTax(tax_rate) THEN 4
             ELSE 0)
  ELSE 0

\* c.get(k, 0) of a Counter
CounterGet(c, k) == IF k \in DOMAIN c THEN c[k] ELSE 0

\* c[k] += n
CounterAdd(c, k, n) == DictSet(c, k, CounterGet(c, k) + n)

RECURSIVE SumOver(_, _)
SumOver(c, keys) ==
  IF keys = {} THEN 0
  ELSE LET k == CHOOSE x \in keys : TRUE IN c[k] + SumOver(c, keys \ {k})

\* sum(c.values())
CounterSum(c) == SumOver(c, DOMAIN c)

\* d.get(party, Counter()) of the per-party counts
PartyCounts(per_party, party) ==
  IF party \in DOMAIN per_party THEN per_party[party] ELSE EmptyDict

\* ------------------------------------------------------------------------
\* 7_generate_charts.py: the input files
\* ------------------------------------------------------------------------

\* Most rows of accounting_units.csv and of analysis_results_checked.csv
MaxBaseRows == 2

MaxChartRows == 2

\* A row of accounting_units.csv as csv.DictReader gives it
BaseRowOf(unit, entity) == [unit |-> PyStr(unit), entity |-> PyStr(entity)]

\* Units of two parties, a unit written twice in different case, and a party
\* that normalise_party renames
BaseRowPool ==
  {BaseRowOf("East Ham", "Labour Party"),
   BaseRowOf("east ham ", "Labour Party"),
   BaseRowOf("West Ham", "Co-operative Party"),
   BaseRowOf("East Ham", "Conservative and Unionist Party")}

BaseTables == UNION {[1..n -> BaseRowPool] : n \in 0..MaxBaseRows}

\* A row of analysis_results_checked.csv as csv.DictReader gives it
AnalysisRowOf(unit, entity, income, rate) ==
  [unit_name |-> PyStr(unit), entity_name |-> PyStr(entity),
   rental_income |-> PyStr(income), approx_tax_rate |-> PyStr(rate)]

\* Rows of every category, rows of one combined name, a row no category
\* takes and units of parties that accounting_units.csv may not have
AnalysisRowPool ==
  {AnalysisRowOf("East Ham", "Labour Party", "1000", "0.20"),
   AnalysisRowOf("EAST HAM ", "Labour Party", "5000", ""),
   AnalysisRowOf("East Ham", "Labour Party", "1000", "-0.1"),
   AnalysisRowOf("West Ham", "Co-operative Party", "0", ""),
   AnalysisRowOf("East Ham", "Conservative and Unionist Party", "2000", "0.05")}

AnalysisTables == UNION {[1..n -> AnalysisRowPool] : n \in 0..MaxChartRows}

\* Texts of a rental_income cell and of an approx_tax_rate cell
IncomeTexts ==
  {"", "abc", "0", "1", "1.5", "1000", "£1,000", "-5", "nan", "inf", "-inf"}

RateTexts ==
  {"", "N/A", "0", "0.003", "0.005", "0.05", "0.10", "0.20", "-0.1", "nan", "inf",
   "-inf"}

\* One-row files for the category of a row, one of them a row that ends after
\* entity_name
ClassifierTables ==
  {<<AnalysisRowOf("East Ham", "Labour Party", income, rate)>> :
     income \in IncomeTexts, rate \in RateTexts}
  \cup {<<[unit_name |-> PyStr("East Ham"), entity_name |-> PyStr("Labour Party"),
          rental_income |-> PyNone, approx_tax_rate |-> PyNone]>>}

\* The four names normalise_party renames
PartyAliases ==
  {"Co-operative Party", "Plaid Cymru - The Party of Wales",
   "Scottish National Party (SNP)", "Conservative and Unionist Party"}

\* One-row files whose party is an alias, once with spaces around it
AliasBaseTables ==
  {<<BaseRowOf("Leith", alias)>> : alias \in PartyAliases}
  \cup {<<BaseRowOf("Leith", " " \o alias \o " ")>> : alias \in PartyAliases}

AliasAnalysisTables ==
  {<<AnalysisRowOf("Leith", alias, "1000", "0.20")>> : alias \in PartyAliases}
  \cup {<<AnalysisRowOf("Leith", " " \o alias \o " ", "0", "")>> : alias \in PartyAliases}

\* The character U+FEFF that a file saved "with BOM" begins with, written out
BOM == "<U+FEFF>"

\* reader.fieldnames of csv.DictReader over open(..., encoding=encoding) of a
\* file whose first line holds the names of header, after a byte-order mark
\* when bom: 'utf-8' leaves the mark in front of the first name, 'utf-8-sig'
\* takes it away
reader_fieldnames(encoding, bom, header) ==
  IF bom /\ encoding = "utf-8" /\ header # <<>>
  THEN <<BOM \o Head(header)>> \o Tail(header)
  ELSE header

\* h in reader.fieldnames
InFieldnames(h, fieldnames) == \E i \in DOMAIN fieldnames : fieldnames[i] = h

\* reader.fieldnames and all(h in reader.fieldnames for h in required)
HasHeaders(fieldnames, required) ==
  /\ fieldnames # <<>>
  /\ \A h \in required : InFieldnames(h, fieldnames)

\* The headers get_base_unit_counts asks for
base_required_headers == {"AccountingUnitName", "RegulatedEntityName"}

\* required_headers of analyze_tax_categories
required_headers == {"unit_name", "entity_name", "rental_income", "approx_tax_rate"}

\* row.get of the two columns of a row of the base file read under
\* fieldnames: None for a column that is not among them
BaseDictRow(fieldnames, cells) ==
  [unit   |-> IF InFieldnames("AccountingUnitName", fieldnames) THEN cells.unit ELSE PyNone,
   entity |-> IF InFieldnames("RegulatedEntityName", fieldnames) THEN cells.entity
              ELSE PyNone]

\* row.get of the four columns of a row of the analysis file read under
\* fieldnames
AnalysisDictRow(fieldnames, cells) ==
  [unit_name       |-> IF InFieldnames("unit_name", fieldnames) THEN cells.unit_name
                       ELSE PyNone,
   entity_name     |-> IF InFieldnames("entity_name", fieldnames) THEN cells.entity_name
                       ELSE PyNone,
   rental_income   |-> IF InFieldnames("rental_income", fieldnames)
                       THEN cells.rental_income ELSE PyNone,
   approx_tax_rate |-> IF InFieldnames("approx_tax_rate", fieldnames)
                       THEN cells.approx_tax_rate ELSE PyNone]

\* First lines of a base file: the two columns first, after ECRef, and
\* without RegulatedEntityName
BaseHeaderPool ==
  {<<"AccountingUnitName", "RegulatedEntityName">>,
   <<"ECRef", "AccountingUnitName", "RegulatedEntityName">>,
   <<"ECRef", "AccountingUnitName">>}

\* First lines of an analysis file: the four columns first, after number, and
\* without rental_income
ChartHeaderPool ==
  {<<"unit_name", "entity_name", "rental_income", "approx_tax_rate">>,
   <<"number", "unit_name", "entity_name", "rental_income", "approx_tax_rate">>,
   <<"number", "unit_name", "entity_name", "approx_tax_rate">>}

\* The two files with any of these first lines, with and without a
\* byte-order mark
HeaderInit ==
  \E bh \in BaseHeaderPool, ah \in ChartHeaderPool, bb \in BOOLEAN, ab \in BOOLEAN :
    /\ base_fieldnames = reader_fieldnames("utf-8", bb, bh)
    /\ analysis_fieldnames = reader_fieldnames("utf-8", ab, ah)
    /\ cBase = <<BaseDictRow(base_fieldnames, BaseRowOf("East Ham", "Labour Party"))>>
    /\ cAnalysis =
         <<AnalysisDictRow(analysis_fieldnames,
                           AnalysisRowOf("East Ham", "Labour Party", "1000", "0.20"))>>

\* The two files with all their columns and no byte-order mark
PlainHeaders ==
  /\ base_fieldnames = <<"ECRef", "AccountingUnitName", "RegulatedEntityName">>
  /\ analysis_fieldnames =
       <<"number", "unit_name", "entity_name", "rental_income", "approx_tax_rate">>

ChartInit ==
  /\ KeyIdle
  /\ MatcherIdle
  /\ DedupeIdle
  /\ HtmlIdle
  /\ PipeIdle
  /\ cPc = "base"
  /\ \/ PlainHeaders /\ cBase \in BaseTables /\ cAnalysis \in AnalysisTables
     \/ /\ PlainHeaders
        /\ cBase = <<BaseRowOf("East Ham", "Labour Party")>>
        /\ cAnalysis \in ClassifierTables
     \/ PlainHeaders /\ cBase \in AliasBaseTables /\ cAnalysis \in AliasAnalysisTables
     \/ HeaderInit
  /\ initial_rows = 0
  /\ skipped_or_duplicates = 0
  /\ processed_units = {}
  /\ unique_units_per_party = EmptyDict
  /\ total_units_base = 0
  /\ rows_read = 0
  /\ processed_units_in_analysis = {}
  /\ analysis_counts = [overall |-> EmptyDict, per_party |-> EmptyDict]
  /\ units_analyzed_count = 0
  /\ units_skipped_count = 0
  /\ category_num = 0
  /\ cWarnings = {}
  /\ adjusted_parties = 0
  /\ parties_with_issues = 0

\* ------------------------------------------------------------------------
\* 7_generate_charts.py: the steps of the script
\* ------------------------------------------------------------------------

\* get_base_unit_counts returns 0 and an empty Counter for a file without
\* the two headers, and the script ends
BaseHeadersMissing ==
  /\ cPc = "base"
  /\ ~HasHeaders(base_fieldnames, base_required_headers)
  /\ cPc' = "exit"
  /\ UNCHANGED <<baseVars, categoryVars, adjustVars, headerVars>>
  /\ ChartFrame

\* One turn of the loop of get_base_unit_counts
CountBaseRow ==
  /\ cPc = "base"
  /\ HasHeaders(base_fieldnames, base_required_headers)
  /\ initial_rows < Len(cBase)
  /\ initial_rows' = initial_rows + 1
  /\ LET row           == cBase[initial_rows + 1]
         combined_name == get_combined_name(row.unit, row.entity)
         party_name    == normalise_party(StrStrip(row.entity.s))
     IN  IF Truthy(combined_name) /\ combined_name.s \notin processed_units
         THEN /\ processed_units' = processed_units \cup {combined_name.s}
              /\ unique_units_per_party' = CounterAdd(unique_units_per_party, party_name, 1)
              /\ UNCHANGED skipped_or_duplicates
         ELSE /\ skipped_or_duplicates' = skipped_or_duplicates + 1
              /\ UNCHANGED <<processed_units, unique_units_per_party>>
  /\ UNCHANGED <<cPc, cBase, total_units_base, categoryVars, adjustVars, headerVars>>
  /\ ChartFrame

\* get_base_unit_counts returns; the script ends here when it found no unit
EndBaseCount ==
  /\ cPc = "base"
  /\ HasHeaders(base_fieldnames, base_required_headers)
  /\ initial_rows = Len(cBase)
  /\ total_units_base' = Cardinality(processed_units)
  /\ cPc' = IF Cardinality(processed_units) = 0 THEN "exit" ELSE "headers"
  /\ UNCHANGED <<cBase, initial_rows, skipped_or_duplicates, processed_units,
                 unique_units_per_party, categoryVars, adjustVars, headerVars>>
  /\ ChartFrame

\* analyze_tax_categories opens the analysis file: a file without the four
\* headers gets a warning, and the loop over its rows follows all the same
CheckAnalysisHeaders ==
  /\ cPc = "headers"
  /\ cWarnings' =
       IF HasHeaders(analysis_fieldnames, required_headers) THEN cWarnings
       ELSE cWarnings \cup {[scope |-> "headers", party |-> ""]}
  /\ cPc' = "analysis"
  /\ UNCHANGED <<baseVars, categoryVars, adjusted_parties, parties_with_issues,
                 headerVars>>
  /\ ChartFrame

\* One turn of the loop of analyze_tax_categories
CategorizeRow ==
  /\ cPc = "analysis"
  /\ rows_read < Len(cAnalysis)
  /\ rows_read' = rows_read + 1
  /\ LET row           == cAnalysis[rows_read + 1]
         combined_name == get_combined_name(row.unit_name, row.entity_name)
     IN  IF ~Truthy(combined_name) \/ combined_name.s \in processed_units_in_analysis
         THEN /\ units_skipped_count' = units_skipped_count + 1
              /\ UNCHANGED <<processed_units_in_analysis, analysis_counts,
                             units_analyzed_count, category_num>>
         ELSE LET party_name    == normalise_party(StrStrip(row.entity_name.s))
                  rental_income == safe_float_convert(row.rental_income)
                  tax_rate      == safe_float_convert(row.approx_tax_rate)
                  category      == CategoryOf(rental_income, tax_rate)
              IN  /\ category_num' = category
                  /\ IF category = 0
                     THEN /\ units_skipped_count' = units_skipped_count + 1
                          /\ UNCHANGED <<processed_units_in_analysis, analysis_counts,
                                         units_analyzed_count>>
                     ELSE /\ processed_units_in_analysis' =
                               processed_units_in_analysis \cup {combined_name.s}
                          /\ units_analyzed_count' = units_analyzed_count + 1
                          /\ UNCHANGED units_skipped_count
                          /\ analysis_counts' =
                               [overall   |-> CounterAdd(analysis_counts.overall,
                                                         category_names_map[category], 1),
                                per_party |-> DictSet(analysis_counts.per_party, party_name,
                                                CounterAdd(PartyCounts(analysis_counts.per_party,
                                                                       party_name),
                                                           category_names_map[category], 1))]
  /\ UNCHANGED <<cPc, cAnalysis, baseVars, adjustVars, headerVars>>
  /\ ChartFrame

\* analyze_tax_categories returns
EndCategorize ==
  /\ cPc = "analysis"
  /\ rows_read = Len(cAnalysis)
  /\ cPc' = "adjust_overall"
  /\ UNCHANGED <<baseVars, categoryVars, adjustVars, headerVars>>
  /\ ChartFrame

\* One unit added, whatever the difference is
AddOneToCategory1(counts, difference) ==
  DictSet(counts, category_names_map[1], CounterGet(counts, category_names_map[1]) + 1)

\* counts[cat1_name] = counts.get(cat1_name, 0) + difference
AddToCategory1(counts, difference) ==
  DictSet(counts, category_names_map[1],
          CounterGet(counts, category_names_map[1]) + difference)

\* Step 3, the overall counts
AdjustOverall ==
  /\ cPc = "adjust_overall"
  /\ LET overall_difference == total_units_base - CounterSum(analysis_counts.overall)
     IN  /\ analysis_counts' =
              IF overall_difference > 0
              THEN [analysis_counts EXCEPT
                      !.overall = AddToCategory1(@, overall_difference)]
              ELSE analysis_counts
         /\ cWarnings' =
              IF overall_difference < 0
              THEN cWarnings \cup {[scope |-> "overall", party |-> ""]}
              ELSE cWarnings
  /\ cPc' = "adjust_parties"
  /\ UNCHANGED <<baseVars, cAnalysis, rows_read, processed_units_in_analysis,
                 units_analyzed_count, units_skipped_count, category_num,
                 adjusted_parties, parties_with_issues, headerVars>>
  /\ ChartFrame

\* base_party_count - current_party_sum of a party of units_per_party_base
PartyDifference(party) ==
  unique_units_per_party[party] - CounterSum(PartyCounts(analysis_counts.per_party, party))

\* Step 3, the loop over the parties of units_per_party_base
AdjustParties ==
  /\ cPc = "adjust_parties"
  /\ LET above == {p \in DOMAIN unique_units_per_party : PartyDifference(p) > 0}
         below == {p \in DOMAIN unique_units_per_party : PartyDifference(p) < 0}
     IN  /\ analysis_counts' =
              [analysis_counts EXCEPT
                 !.per_party =
                    [p \in (DOMAIN @) \cup above |->
                       IF p \in above
                       THEN AddToCategory1(PartyCounts(@, p), PartyDifference(p))
                       ELSE @[p]]]
         /\ cWarnings' = cWarnings \cup {[scope |-> "party", party |-> p] : p \in below}
         /\ adjusted_parties' = Cardinality(above)
         /\ parties_with_issues' = Cardinality(below)
  /\ cPc' = "done"
  /\ UNCHANGED <<baseVars, cAnalysis, rows_read, processed_units_in_analysis,
                 units_analyzed_count, units_skipped_count, category_num, headerVars>>
  /\ ChartFrame

ChartNext ==
  \/ BaseHeadersMissing \/ CountBaseRow \/ EndBaseCount \/ CheckAnalysisHeaders
  \/ CategorizeRow \/ EndCategorize \/ AdjustOverall \/ AdjustParties

SpecCharts == ChartInit /\ [][ChartNext]_vars

\* ------------------------------------------------------------------------
\* 7_generate_charts.py: the category of a row
\* ------------------------------------------------------------------------

\* The combined name of row i of the analysis file
CombinedNameOfRow(i) == get_combined_name(cAnalysis[i].unit_name, cAnalysis[i].entity_name)

\* Row i has a combined name that no earlier row of the file has
FirstOfItsName(i) ==
  /\ Truthy(CombinedNameOfRow(i))
  /\ \A j \in 1..(i - 1) : CombinedNameOfRow(j) # CombinedNameOfRow(i)

\* The last row read is the first of its name, so that category_num and the
\* counts tell what the classification did with it
RowClassified == rows_read >= 1 /\ FirstOfItsName(rows_read)

\* The numbers in the two cells of the last row read
IncomeRead == safe_float_convert(cAnalysis[rows_read].rental_income)

RateRead == safe_float_convert(cAnalysis[rows_read].approx_tax_rate)

\* The count of the category n in the overall counts
OverallCount(n) == CounterGet(analysis_counts.overall, category_names_map[n])

\* The last row read has been given the category n and is counted there
CategoryGiven(n) == category_num = n /\ OverallCount(n) >= 1

\* The last row read has the cell texts income and rate
CellsRead(income, rate) ==
  /\ cAnalysis[rows_read].rental_income = PyStr(income)
  /\ cAnalysis[rows_read].approx_tax_rate = PyStr(rate)

\* C13: a row whose rental_income is a number gets one of the four
\* categories and is counted, whatever its tax rate is: missing, zero,
\* negative or any other number
C13_EveryRowCategorized ==
  (RowClassified /\ IncomeRead.kind = "num" /\ RateRead.kind \in {"None", "num"}) =>
    /\ category_num \in 1..4
    /\ OverallCount(category_num) >= 1
    /\ units_analyzed_count >= 1

\* C14: with rental income above the threshold, a row is Low tax paid only
\* when its rate is above 0.005 and below the threshold rate, and it is No tax
\* paid when its rate is missing, zero, or above zero and at most 0.005
C14_LowTaxAboveEpsilon ==
  (RowClassified /\ IncomeRead.kind = "num"
     /\ FloatLess(Float(THRESHOLD_AMOUNT, 0), IncomeRead)
     /\ RateRead.kind \in {"None", "num"}) =>
    /\ category_num = 3 =>
         /\ RateRead.kind = "num"
         /\ FloatLess(Float(5, 3), RateRead)
         /\ FloatLess(RateRead, THRESHOLD_RATE)
    /\ (RateRead.kind = "None"
          \/ (FloatLe(Float(0, 0), RateRead) /\ FloatLe(RateRead, Float(5, 3)))) =>
         CategoryGiven(4)

\* C15: a row whose rental income is missing, unparsable or at most the
\* threshold amount 1 is No rental income whatever its tax rate is; so are
\* the rows (0, missing) and (1, 0.20)
C15_NoRentalIncomeFirst ==
  RowClassified =>
    /\ (IncomeRead.kind = "None"
          \/ (IncomeRead.kind = "num" /\ FloatLe(IncomeRead, Float(THRESHOLD_AMOUNT, 0)))) =>
         CategoryGiven(1)
    /\ (CellsRead("0", "") \/ CellsRead("1", "0.20")) => CategoryGiven(1)

\* A row of rental income 1 and rate 0.20 has been counted as No rental income
C15_Witness ==
  /\ RowClassified
  /\ CellsRead("1", "0.20")
  /\ CategoryGiven(1)
  /\ OverallCount(2) = 0

\* C16: a row whose rental income is above the threshold amount and whose
\* rate is present and at least the threshold rate 0.10 is Tax paid; (1000,
\* 0.20) and (1000, 0.10) are Tax paid, (1000, 0.05) is Low tax paid and
\* (1000, missing) is No tax paid
C16_TaxPaidFromThreshold ==
  RowClassified =>
    /\ (/\ IncomeRead.kind \in {"num", "inf"}
        /\ FloatLess(Float(THRESHOLD_AMOUNT, 0), IncomeRead)
        /\ RateRead.kind \in {"num", "inf"}
        /\ FloatLe(THRESHOLD_RATE, RateRead)) =>
         CategoryGiven(2)
    /\ (CellsRead("1000", "0.20") \/ CellsRead("1000", "0.10")) => CategoryGiven(2)
    /\ CellsRead("1000", "0.05") => CategoryGiven(3)
    /\ CellsRead("1000", "") => CategoryGiven(4)

\* A row of rental income 1000 and rate 0.10 has been counted as Tax paid
C16_Witness ==
  /\ RowClassified
  /\ CellsRead("1000", "0.10")
  /\ CategoryGiven(2)
  /\ OverallCount(3) = 0

\* A cell that is missing, empty, unparsable, NaN or infinite
NotAFiniteNumber(cell) == safe_float_convert(cell).kind # "num"

\* C17: a row whose rental income is unparsable, empty, NaN or infinite is No
\* rental income, and a row with rental income above the threshold whose rate
\* is unparsable, empty, NaN or infinite is No tax paid
C17_NonFiniteIsMissing ==
  RowClassified =>
    /\ NotAFiniteNumber(cAnalysis[rows_read].rental_income) => CategoryGiven(1)
    /\ (/\ IncomeRead.kind = "num"
        /\ FloatLess(Float(THRESHOLD_AMOUNT, 0), IncomeRead)
        /\ NotAFiniteNumber(cAnalysis[rows_read].approx_tax_rate)) =>
         CategoryGiven(4)

\* ------------------------------------------------------------------------
\* 7_generate_charts.py: duplicates and the adjustment of step 3
\* ------------------------------------------------------------------------

\* C18: a row that has the combined name of an earlier row of the file is
\* counted as skipped and changes no category count
C18_FirstOccurrenceWins ==
  [][(/\ cPc = "analysis"
      /\ rows_read' = rows_read + 1
      /\ Truthy(CombinedNameOfRow(rows_read'))
      /\ ~FirstOfItsName(rows_read')) =>
       /\ analysis_counts' = analysis_counts
       /\ units_skipped_count' = units_skipped_count + 1
       /\ units_analyzed_count' = units_analyzed_count]_vars

\* Every category count of counts except No rental income is the same in
\* after, and No rental income is higher by difference
OnlyCategory1Raised(counts, after, difference) ==
  \A n \in 1..4 :
    CounterGet(after, category_names_map[n]) =
      CounterGet(counts, category_names_map[n]) + (IF n = 1 THEN difference ELSE 0)

\* C19: when the base count is above the sum of the analysed counts, overall
\* or of a party, step 3 raises No rental income by the difference, changes
\* no other count, and the counts then sum to the base count
C19_PositiveDifferenceAdded ==
  [][/\ (cPc = "adjust_overall" /\ cPc' = "adjust_parties"
           /\ total_units_base > CounterSum(analysis_counts.overall)) =>
          /\ OnlyCategory1Raised(analysis_counts.overall, analysis_counts'.overall,
                                 total_units_base - CounterSum(analysis_counts.overall))
          /\ CounterSum(analysis_counts'.overall) = total_units_base
          /\ analysis_counts'.per_party = analysis_counts.per_party
     /\ (cPc = "adjust_parties" /\ cPc' = "done") =>
          /\ analysis_counts'.overall = analysis_counts.overall
          /\ \A p \in DOMAIN unique_units_per_party :
               PartyDifference(p) > 0 =>
                 /\ OnlyCategory1Raised(PartyCounts(analysis_counts.per_party, p),
                                        PartyCounts(analysis_counts'.per_party, p),
                                        PartyDifference(p))
                 /\ CounterSum(PartyCounts(analysis_counts'.per_party, p)) =
                      unique_units_per_party[p]]_vars

\* Step 3 has ended after raising the overall No rental income count by two
\* and the count of a party
C19_Witness ==
  /\ cPc = "done"
  /\ total_units_base = units_analyzed_count + 2
  /\ CounterSum(analysis_counts.overall) = total_units_base
  /\ adjusted_parties >= 1
  /\ \E p \in DOMAIN unique_units_per_party :
       CounterSum(PartyCounts(analysis_counts.per_party, p)) = unique_units_per_party[p]

\* The parties of either file
PartiesOfBothFiles == (DOMAIN unique_units_per_party) \cup (DOMAIN analysis_counts.per_party)

\* C20: when step 3 has ended, a warning has been given for the overall
\* counts if they sum to more than the base count, and for every party whose
\* counts sum to more than its base count; these counts are the analysed
\* ones, and no count is negative
C20_NegativeDifferenceWarned ==
  cPc = "done" =>
    /\ total_units_base < CounterSum(analysis_counts.overall) =>
         /\ [scope |-> "overall", party |-> ""] \in cWarnings
         /\ CounterSum(analysis_counts.overall) = units_analyzed_count
    /\ \A p \in PartiesOfBothFiles :
         CounterGet(unique_units_per_party, p)
           < CounterSum(PartyCounts(analysis_counts.per_party, p)) =>
             [scope |-> "party", party |-> p] \in cWarnings
    /\ \A n \in 1..4 : OverallCount(n) >= 0
    /\ \A p \in DOMAIN analysis_counts.per_party :
         \A n \in 1..4 : CounterGet(analysis_counts.per_party[p], category_names_map[n]) >= 0

\* ------------------------------------------------------------------------
\* 7_generate_charts.py: party names and the two count tables
\* ------------------------------------------------------------------------

\* The label the units of a party are to be counted under
CanonicalLabel(party) ==
  IF party = "Co-operative Party" THEN "Labour Party"
  ELSE IF party = "Plaid Cymru - The Party of Wales" THEN "Plaid Cymru"
  ELSE IF party = "Scottish National Party (SNP)" THEN "Scottish National Party"
  ELSE IF party = "Conservative and Unionist Party" THEN "Conservative"
  ELSE party

\* C21: no alias is ever a party key of the base counts or of the analysis
\* counts; when the base file has been read, every unit of it is counted
\* under the canonical label of its party, and so is every categorized row of
\* the analysis file
C21_AliasesMerged ==
  /\ PartyAliases \cap DOMAIN unique_units_per_party = {}
  /\ PartyAliases \cap DOMAIN analysis_counts.per_party = {}
  /\ \A i \in 1..initial_rows :
       CanonicalLabel(StrStrip(cBase[i].entity.s)) \in DOMAIN unique_units_per_party
  /\ (RowClassified /\ category_num # 0) =>
       CanonicalLabel(StrStrip(cAnalysis[rows_read].entity_name.s))
         \in DOMAIN analysis_counts.per_party

\* A unit of the Co-operative Party in each file has been counted under
\* Labour Party
C21_Witness ==
  /\ cPc = "done"
  /\ cBase[1].entity = PyStr(" Co-operative Party ")
  /\ cAnalysis[1].entity_name = PyStr("Co-operative Party")
  /\ CounterGet(unique_units_per_party, "Labour Party") = 1
  /\ CounterGet(PartyCounts(analysis_counts.per_party, "Labour Party"), "Tax paid") = 1

\* The parties of the analysis counts and of the base counts
CountedParties == (DOMAIN analysis_counts.per_party) \cup (DOMAIN unique_units_per_party)

RECURSIVE SumOfParties(_, _)
\* The sum over the parties of their counts of category n
SumOfParties(parties, n) ==
  IF parties = {} THEN 0
  ELSE LET p == CHOOSE x \in parties : TRUE
       IN  CounterGet(PartyCounts(analysis_counts.per_party, p), category_names_map[n])
             + SumOfParties(parties \ {p}, n)

\* C29: when step 3 has ended, the overall count of every category is the sum
\* of the parties' counts of that category
C29_OverallIsSumOfParties ==
  cPc = "done" => \A n \in 1..4 : OverallCount(n) = SumOfParties(CountedParties, n)

\* ------------------------------------------------------------------------
\* 0_dedupe_data.py: which year is kept, and names that differ in case
\* ------------------------------------------------------------------------

\* The reporting year of input row i
YearOfFiling(i) == to_numeric(StripCell(ReadCell(dIn[i].period)))

\* C26: when the script has ended, the filing written for a unit has the
\* greatest reporting year among the unit's filings that pass the filters
C26_MostRecentYearKept ==
  dPc = "done" =>
    \A j \in 1..Len(dOut) :
      \A k \in Survivors :
        PairOfFiling(k) = PairOfFiling(dOut[j].idx) =>
          ~NumLess(YearOfFiling(dOut[j].idx), YearOfFiling(k))

\* C27: when the script has ended, no two rows of the output have combined
\* names that are equal ignoring case, so that get_base_unit_counts finds as
\* many units in the output as it has rows
C27_UnitsDifferIgnoringCase ==
  dPc = "done" =>
    /\ \A i, j \in 1..Len(dOut) :
         i # j => get_combined_name(dOut[i].unit, dOut[i].entity)
                    # get_combined_name(dOut[j].unit, dOut[j].entity)
    /\ Cardinality({get_combined_name(dOut[j].unit, dOut[j].entity) : j \in 1..Len(dOut)})
         = Len(dOut)

\* ------------------------------------------------------------------------
\* 4_add_mps.py: what an aborted run leaves behind
\* ------------------------------------------------------------------------

\* C23: a run of the matcher that has aborted has written no output file,
\* and a run that has ended has written one row for every row it read
C23_AbortLeavesNoOutput ==
  /\ mPc = "aborted" => (~outOpen /\ outRows = <<>>)
  /\ mPc = "done" => (outOpen /\ Len(outRows) = Len(anRows))

\* ------------------------------------------------------------------------
\* 7_generate_charts.py: the first line of the two input files
\* ------------------------------------------------------------------------

\* The names of the first line of the file that was read under fieldnames:
\* fieldnames without the byte-order mark in front of the first name
NamesInFile(fieldnames) ==
  IF fieldnames # <<>> /\ Len(fieldnames[1]) >= Len(BOM)
     /\ SubSeq(fieldnames[1], 1, Len(BOM)) = BOM
  THEN <<SubSeq(fieldnames[1], Len(BOM) + 1, Len(fieldnames[1]))>> \o Tail(fieldnames)
  ELSE fieldnames

\* The file read under fieldnames begins with a byte-order mark
BeginsWithBOM(fieldnames) == NamesInFile(fieldnames) # fieldnames

\* C24: a chart stage whose base file lacks one of its two columns, or whose
\* analysis file lacks one of unit_name, entity_name, rental_income and
\* approx_tax_rate, reads no row of that file and does not get to its charts
C24_MissingColumnStopsStage ==
  /\ ~HasHeaders(NamesInFile(base_fieldnames), base_required_headers) =>
       (initial_rows = 0 /\ cPc \in {"base", "exit"})
  /\ ~HasHeaders(NamesInFile(analysis_fieldnames), required_headers) =>
       (rows_read = 0 /\ cPc \in {"base", "exit", "headers", "analysis"})

\* C25: a byte-order mark in front of a file changes nothing: a base file
\* that holds its two columns is read to its last row before the stage ends,
\* and an analysis file that holds its four columns gets no warning about
\* its headers
C25_ByteOrderMarkIgnored ==
  /\ (cPc = "exit" /\ Len(cBase) > 0) =>
       (~HasHeaders(NamesInFile(base_fieldnames), base_required_headers)
        \/ initial_rows = Len(cBase))
  /\ [scope |-> "headers", party |-> ""] \in cWarnings =>
       ~HasHeaders(NamesInFile(analysis_fieldnames), required_headers)

\* ------------------------------------------------------------------------
\* 6_generate_html.py: numbers, the sort of the rows and the loop over them
\* ------------------------------------------------------------------------

\* THRESHOLD_RATE of 6_generate_html.py
HTML_THRESHOLD_RATE == 1

\* THRESHOLD_AMOUNT of 6_generate_html.py
HTML_THRESHOLD_AMOUNT == 1

\* 0.15
EXPECTED_TAX_RATE == Float(15, 2)

\* max(a.e, b.e)
MaxExp(a, b) == IF a.e >= b.e THEN a.e ELSE b.e

\* a + b of two finite floats, as decimals
FloatAdd(a, b) ==
  Float(a.m * Pow10(MaxExp(a, b) - a.e) + b.m * Pow10(MaxExp(a, b) - b.e), MaxExp(a, b))

\* a - b of two finite floats, as decimals
FloatSub(a, b) ==
  Float(a.m * Pow10(MaxExp(a, b) - a.e) - b.m * Pow10(MaxExp(a, b) - b.e), MaxExp(a, b))

\* a * b of two finite floats, as decimals
FloatMul(a, b) == Float(a.m * b.m, a.e + b.e)

\* max(0, a) of a finite float
MaxZero(a) == IF a.m < 0 THEN Float(0, 0) ELSE a

\* rental_income_float of a rental_income cell: 0.0 for an empty cell, a text
\* that is no number, NaN and the infinities
rental_income_float(rental_income_str) ==
  IF ~Truthy(rental_income_str) THEN Float(0, 0)
  ELSE LET f == ParseFloat(rental_income_str.s)
       IN  IF f.kind = "num" THEN f ELSE Float(0, 0)

\* tax_rate_float of an approx_tax_rate cell: None for an empty cell, a text
\* that is no number, NaN and the infinities
tax_rate_float(tax_rate_str) ==
  IF ~Truthy(tax_rate_str) THEN FloatNone
  ELSE LET f == ParseFloat(tax_rate_str.s)
       IN  IF f.kind = "num" THEN f ELSE FloatNone

\* rental_income_float * max(0, max(0, EXPECTED_TAX_RATE - effective_tax_rate))
missing_of(income, rate) ==
  LET effective_tax_rate == IF rate.kind = "None" THEN Float(0, 0) ELSE rate
  IN  FloatMul(income, MaxZero(MaxZero(FloatSub(EXPECTED_TAX_RATE, effective_tax_rate))))

RECURSIVE html_escape(_)
\* html.escape(s)
html_escape(s) ==
  IF s = "" THEN ""
  ELSE (CASE Head(s) = "&" -> "&amp;"
          [] Head(s) = "<" -> "&lt;"
          [] Head(s) = ">" -> "&gt;"
          [] Head(s) = "\"" -> "&quot;"
          [] Head(s) = "'" -> "&#x27;"
          [] OTHER -> Head(s))
       \o html_escape(Tail(s))

\* f"{constituency} {party}" of a row
row_identifier(row) ==
  html_escape(row.unit_name.s) \o " " \o html_escape(row.entity_name.s)

\* sort_key(row): not rented_to_mp, and the income whose negative is the
\* second part of the key
sort_key(row) ==
  [not_rented |-> StrLower(StrStrip(row.rented_to_mp.s)) # "true",
   income     |-> IF ~Truthy(row.rental_income) THEN FloatNegInf
                  ELSE LET f == ParseFloat(row.rental_income.s)
                       IN  IF f.kind = "num" THEN f ELSE FloatNegInf]

\* sort_key(a) < sort_key(b): False before True, then the higher income first
SortKeyLess(a, b) ==
  \/ ~sort_key(a).not_rented /\ sort_key(b).not_rented
  \/ /\ sort_key(a).not_rented = sort_key(b).not_rented
     /\ FloatLess(sort_key(b).income, sort_key(a).income)

\* row put into a sorted list, behind the rows whose key is not greater
InsertByKey(sorted, row) ==
  LET before == {i \in 1..Len(sorted) :
                   \A j \in 1..i : ~SortKeyLess(row, sorted[j])}
      n      == Cardinality(before)
  IN  SubSeq(sorted, 1, n) \o <<row>> \o SubSeq(sorted, n + 1, Len(sorted))

RECURSIVE SortedPrefix(_, _)
\* The first n rows, sorted
SortedPrefix(rows, n) ==
  IF n = 0 THEN <<>> ELSE InsertByKey(SortedPrefix(rows, n - 1), rows[n])

\* data_rows.sort(key=sort_key), a stable sort
sort_by_key(rows) == SortedPrefix(rows, Len(rows))

\* The longest file of the model
MaxHtmlRows == 3

\* A row of analysis_results_checked.csv as the HTML stage reads it
HtmlRowOf(unit, entity, income, rate, rented, years) ==
  [unit_name |-> PyStr(unit), entity_name |-> PyStr(entity),
   rental_income |-> PyStr(income), approx_tax_rate |-> PyStr(rate),
   rented_to_mp |-> PyStr(rented), years_rented_to_mp |-> PyStr(years)]

\* Rows: a unit listed twice, an income of exactly 1, an income below 1, an
\* income written with a pound sign, a rate above 1 and a number of years
\* that is no number
HtmlRowPool ==
  {HtmlRowOf("East Ham", "Labour Party", "1000", "0.05", "TRUE", "2"),
   HtmlRowOf("East Ham", "Labour Party", "2000", "", "FALSE", ""),
   HtmlRowOf("West Ham", "Labour Party", "1", "0.20", "", ""),
   HtmlRowOf("Leith", "Labour & Co-operative", "0.5", "0.10", "TRUE", ""),
   HtmlRowOf("West Ham", "Conservative Party", "£1,000", "0.05", "", ""),
   HtmlRowOf("Leith", "Conservative Party", "500", "1.5", "TRUE", "3"),
   HtmlRowOf("Bath", "Labour Party", "3000", "0.10", "TRUE", "n/a")}

HtmlTables == UNION {[1..n -> HtmlRowPool] : n \in 0..MaxHtmlRows}

HtmlInit ==
  /\ KeyIdle
  /\ MatcherIdle
  /\ DedupeIdle
  /\ ChartIdle
  /\ PipeIdle
  /\ hPc = "sort"
  /\ data_rows \in HtmlTables
  /\ hRow = 0
  /\ hOutcome = ""
  /\ checked = {}
  /\ missing_tax = Float(0, 0)
  /\ missing_ipsa_tax_single_year = Float(0, 0)
  /\ missing_ipsa_tax_all_years = Float(0, 0)
  /\ rows_added = 0
  /\ html_rows = <<>>

\* data_rows.sort(key=sort_key)
SortDataRows ==
  /\ hPc = "sort"
  /\ data_rows' = sort_by_key(data_rows)
  /\ hPc' = "loop"
  /\ UNCHANGED <<hRow, hOutcome, checked, totalVars, rows_added, html_rows>>
  /\ HtmlFrame

\* One turn of the loop over data_rows; float() of a number of years that is
\* no number raises, and nothing catches it
HtmlRow ==
  /\ hPc = "loop"
  /\ hRow < Len(data_rows)
  /\ hRow' = hRow + 1
  /\ UNCHANGED data_rows
  /\ LET row    == data_rows[hRow + 1]
         income == rental_income_float(row.rental_income)
         rate   == tax_rate_float(row.approx_tax_rate)
         rented == row.rented_to_mp = PyStr("TRUE")
         years  == IF Truthy(row.years_rented_to_mp)
                   THEN ParseFloat(row.years_rented_to_mp.s)
                   ELSE Float(1, 0)
     IN  IF FloatLess(income, Float(HTML_THRESHOLD_AMOUNT, 0))
         THEN /\ hOutcome' = "income below threshold"
              /\ UNCHANGED <<hPc, checked, totalVars, rows_added, html_rows>>
         ELSE IF rate.kind # "None" /\ FloatLess(Float(HTML_THRESHOLD_RATE, 0), rate)
         THEN /\ hOutcome' = "rate above threshold"
              /\ UNCHANGED <<hPc, checked, totalVars, rows_added, html_rows>>
         ELSE /\ missing_tax' = FloatAdd(missing_tax, missing_of(income, rate))
              /\ missing_ipsa_tax_single_year' =
                   IF rented
                   THEN FloatAdd(missing_ipsa_tax_single_year, missing_of(income, rate))
                   ELSE missing_ipsa_tax_single_year
              /\ IF rented /\ years.kind # "num"
                 THEN /\ hPc' = "raised"
                      /\ hOutcome' = "ValueError"
                      /\ UNCHANGED <<missing_ipsa_tax_all_years, checked, rows_added,
                                     html_rows>>
                 ELSE /\ missing_ipsa_tax_all_years' =
                           IF rented
                           THEN FloatAdd(missing_ipsa_tax_all_years,
                                         FloatMul(missing_of(income, rate), years))
                           ELSE missing_ipsa_tax_all_years
                      /\ UNCHANGED hPc
                      /\ IF row_identifier(row) \in checked
                         THEN /\ hOutcome' = "duplicate"
                              /\ UNCHANGED <<checked, rows_added, html_rows>>
                         ELSE /\ hOutcome' = "added"
                              /\ checked' = checked \cup {row_identifier(row)}
                              /\ html_rows' = Append(html_rows, hRow + 1)
                              /\ rows_added' = rows_added + 1
  /\ HtmlFrame

\* The table is closed, the page written and the totals printed
EndHtml ==
  /\ hPc = "loop"
  /\ hRow = Len(data_rows)
  /\ hPc' = "done"
  /\ UNCHANGED <<data_rows, hRow, hOutcome, checked, totalVars, rows_added, html_rows>>
  /\ HtmlFrame

HtmlNext == SortDataRows \/ HtmlRow \/ EndHtml

SpecHtml == HtmlInit /\ [][HtmlNext]_vars

\* ------------------------------------------------------------------------
\* 6_generate_html.py: the totals and the rows of the table
\* ------------------------------------------------------------------------

\* The missing tax of row i of data_rows
MissingOfRow(i) ==
  missing_of(rental_income_float(data_rows[i].rental_income),
             tax_rate_float(data_rows[i].approx_tax_rate))

RECURSIVE SumDisplayed(_, _)
\* The sum of Amount over the first n rows of the table
SumDisplayed(Amount(_), n) ==
  IF n = 0 THEN Float(0, 0)
  ELSE FloatAdd(SumDisplayed(Amount, n - 1), Amount(html_rows[n]))

\* The missing tax of row i if it is rented to an MP, else 0
IpsaOfRow(i) ==
  IF data_rows[i].rented_to_mp = PyStr("TRUE") THEN MissingOfRow(i) ELSE Float(0, 0)

\* The missing tax of row i for the years it was rented to an MP
AllYearsOfRow(i) ==
  IF data_rows[i].rented_to_mp = PyStr("TRUE")
  THEN FloatMul(MissingOfRow(i),
                IF Truthy(data_rows[i].years_rented_to_mp)
                THEN ParseFloat(data_rows[i].years_rented_to_mp.s)
                ELSE Float(1, 0))
  ELSE Float(0, 0)

\* C28: the three totals are the sums over the rows of the table: a row
\* skipped as a duplicate adds nothing to missing_tax nor to the totals of the
\* units rented to an MP
C28_TotalsOverDisplayedRows ==
  hPc \in {"loop", "done"} =>
    /\ rows_added = Len(html_rows)
    /\ FloatEq(missing_tax, SumDisplayed(MissingOfRow, Len(html_rows)))
    /\ FloatEq(missing_ipsa_tax_single_year, SumDisplayed(IpsaOfRow, Len(html_rows)))
    /\ FloatEq(missing_ipsa_tax_all_years, SumDisplayed(AllYearsOfRow, Len(html_rows)))

\* The category the chart stage gives to the row the loop has just handled
ChartCategoryOfRow ==
  CategoryOf(safe_float_convert(data_rows[hRow].rental_income),
             safe_float_convert(data_rows[hRow].approx_tax_rate))

\* The rate of the row the loop has just handled is missing or at most 1
RateAtMostOne ==
  LET rate == tax_rate_float(data_rows[hRow].approx_tax_rate)
  IN  rate.kind = "None" \/ FloatLe(rate, Float(1, 0))

\* C30: a row whose rate is not above 1 passes the income filter of the HTML
\* stage exactly when the chart stage puts it in Tax paid, Low tax paid or No
\* tax paid, also when its income is exactly the threshold
C30_IncomeFilterAgreesWithCharts ==
  (hPc \in {"loop", "done"} /\ hRow >= 1 /\ RateAtMostOne) =>
    ((hOutcome # "income below threshold") <=> (ChartCategoryOfRow \in {2, 3, 4}))

\* ------------------------------------------------------------------------
\* The stages run in order: the files each one opens
\* ------------------------------------------------------------------------

\* 0_dedupe_data.py
input_filename == "accounting_units.csv"

output_filename == "accounting_units2.csv"

\* 1_download_all_accounts.py: the file it opens
download_filename == "accounting_units.csv"

\* 2_find_candidates.py
input_csv_filename == "accounting_units.csv"

output_csv_filename == "text_search_results.csv"

\* 4_add_mps.py
ANALYSIS_RESULTS_IN == "analysis_results_checked.csv"

MP_LIST_IN == "list_of_mps.csv"

OUTPUT_CSV == "analysis_results_checked2.csv"

\* 6_generate_html.py
INPUT_CSV == "analysis_results_checked.csv"

OUTPUT_HTML == "party_accounts_table.html"

\* 7_generate_charts.py
ACCOUNTING_UNITS_FILE == "accounting_units.csv"

ANALYSIS_RESULTS_FILE == "analysis_results_checked.csv"

\* The number of different tables a file put there by hand can hold
MaxTables == 2

\* A file that was put there by hand, holding table number n
ByHand(n) == [by |-> "hand", table |-> n]

\* A file written by stage from the file it read
WrittenBy(stage, read) == [by |-> stage, table |-> read.table]

\* Before the first stage: the export of the accounting units, the roster and
\* the checked analysis table are there; the outputs of an earlier run of the
\* Deduplicator and of the Matcher may be there too
PipeInit ==
  /\ KeyIdle
  /\ MatcherIdle
  /\ DedupeIdle
  /\ ChartIdle
  /\ HtmlIdle
  /\ pPc = "0_dedupe_data"
  /\ stage_read = EmptyDict
  /\ \E units \in 1..MaxTables, mps \in 1..MaxTables, analysis \in 1..MaxTables,
        old \in SUBSET {output_filename, OUTPUT_CSV} :
       files = [f \in {input_filename, MP_LIST_IN, ANALYSIS_RESULTS_IN} \cup old |->
                  IF f = input_filename THEN ByHand(units)
                  ELSE IF f = MP_LIST_IN THEN ByHand(mps)
                  ELSE IF f = ANALYSIS_RESULTS_IN THEN ByHand(analysis)
                  ELSE ByHand(0)]

\* What a stage finds in the files named names
Opened(names) == [f \in names |-> files[f]]

\* 0_dedupe_data.py reads input_filename and saves the rows it kept to
\* output_filename, if it kept any
RunDedupe ==
  /\ pPc = "0_dedupe_data"
  /\ stage_read' = DictSet(stage_read, "0_dedupe_data", Opened({input_filename}))
  /\ \E kept_any \in BOOLEAN :
       files' = IF kept_any
                THEN DictSet(files, output_filename,
                             WrittenBy("0_dedupe_data", files[input_filename]))
                ELSE files
  /\ pPc' = "1_download_all_accounts"
  /\ PipeFrame

\* 1_download_all_accounts.py reads the accounting units and fetches a PDF
\* for each
RunDownload ==
  /\ pPc = "1_download_all_accounts"
  /\ stage_read' =
       DictSet(stage_read, "1_download_all_accounts", Opened({download_filename}))
  /\ pPc' = "2_find_candidates"
  /\ UNCHANGED files
  /\ PipeFrame

\* 2_find_candidates.py reads the accounting units and writes the search
\* results
RunFindCandidates ==
  /\ pPc = "2_find_candidates"
  /\ stage_read' = DictSet(stage_read, "2_find_candidates", Opened({input_csv_filename}))
  /\ files' = DictSet(files, output_csv_filename,
                      WrittenBy("2_find_candidates", files[input_csv_filename]))
  /\ pPc' = "4_add_mps"
  /\ PipeFrame

\* 4_add_mps.py reads the roster and the analysis table and writes the
\* analysis table with mp_name and mp_email
RunAddMps ==
  /\ pPc = "4_add_mps"
  /\ stage_read' =
       DictSet(stage_read, "4_add_mps", Opened({MP_LIST_IN, ANALYSIS_RESULTS_IN}))
  /\ files' = DictSet(files, OUTPUT_CSV, WrittenBy("4_add_mps", files[ANALYSIS_RESULTS_IN]))
  /\ pPc' = "6_generate_html"
  /\ PipeFrame

\* 6_generate_html.py reads the analysis table and writes the page
RunGenerateHtml ==
  /\ pPc = "6_generate_html"
  /\ stage_read' = DictSet(stage_read, "6_generate_html", Opened({INPUT_CSV}))
  /\ files' = DictSet(files, OUTPUT_HTML, WrittenBy("6_generate_html", files[INPUT_CSV]))
  /\ pPc' = "7_generate_charts"
  /\ PipeFrame

\* 7_generate_charts.py reads the accounting units and the analysis table
RunGenerateCharts ==
  /\ pPc = "7_generate_charts"
  /\ stage_read' =
       DictSet(stage_read, "7_generate_charts",
               Opened({ACCOUNTING_UNITS_FILE, ANALYSIS_RESULTS_FILE}))
  /\ pPc' = "end"
  /\ UNCHANGED files
  /\ PipeFrame

PipeNext ==
  \/ RunDedupe \/ RunDownload \/ RunFindCandidates \/ RunAddMps \/ RunGenerateHtml
  \/ RunGenerateCharts

SpecPipeline == PipeInit /\ [][PipeNext]_vars

\* The tables stage has read came from the stage named writer
ReadFrom(stage, writer) ==
  stage \in DOMAIN stage_read =>
    \A f \in DOMAIN stage_read[stage] : stage_read[stage][f].by = writer

\* C22: the accounting units that the download, the keyword search and the
\* base count read are the table the Deduplicator wrote, and the analysis
\* table that the HTML stage and the chart stage read is the table the
\* Matcher wrote
C22_StagesReadWhatWasWritten ==
  /\ ReadFrom("1_download_all_accounts", "0_dedupe_data")
  /\ ReadFrom("2_find_candidates", "0_dedupe_data")
  /\ ReadFrom("6_generate_html", "4_add_mps")
  /\ "7_generate_charts" \in DOMAIN stage_read =>
       /\ stage_read["7_generate_charts"][ACCOUNTING_UNITS_FILE].by = "0_dedupe_data"
       /\ stage_read["7_generate_charts"][ANALYSIS_RESULTS_FILE].by = "4_add_mps"

====
